---------------------------- MODULE Spec2Model ----------------------------
(***************************************************************************)
(* A model of the two-pass OCR line merge of scripts/line_anchor_merge_    *)
(* pilot.py (zone classification, contextual token normalization,          *)
(* candidate selection, replacement arbitration, the per-page loop of      *)
(* main) and of the approval step of scripts/apply_approved_rewrites.py.   *)
(*                                                                         *)
(* A text is a sequence of characters.  A character is a TLA+ string: an   *)
(* ASCII character stands for itself, every other character has a name     *)
(* ("n_tilde" for U+00F1, "n_dot" for U+1E45, "TIB_NGA" for U+0F44, ...).  *)
(* The character classes below are the classes of the regular expressions  *)
(* of the source, restricted to the modelled alphabet.                     *)
(***************************************************************************)
EXTENDS Integers, Sequences, FiniteSets, TLC

\* every character the model distinguishes
Alphabet ==
    {"a", "b", "c", "d", "e", "f", "g", "h", "i", "j", "k", "l", "m", "n", "o", "p", "q", "r",
     "s", "t", "u", "v", "w", "x", "y", "z", "A", "B", "C", "D", "E", "F", "G", "H", "I", "J",
     "K", "L", "M", "N", "O", "P", "Q", "R", "S", "T", "U", "V", "W", "X", "Y", "Z", "0", "1",
     "2", "3", "4", "5", "6", "7", "8", "9", " ", "$", "=", ",", ".", ";", ":", "'", "-", "/",
     "(", ")", "%", "+", "!", "?", "*", "_", "#", "@", "&", "^", "|", "~", "[", "]", "{", "}",
     "<", ">", "dq", "backtick", "bsl", "NL", "FF", "TAB", "a_macron", "A_macron", "i_macron",
     "I_macron", "u_macron", "U_macron", "r_underdot", "R_underdot", "rr_underdot",
     "RR_underdot", "l_underdot", "L_underdot", "ll_underdot", "LL_underdot", "n_dot", "N_dot",
     "n_tilde", "N_tilde", "t_underdot", "T_underdot", "d_underdot", "D_underdot", "n_underdot",
     "N_underdot", "s_acute", "S_acute", "s_underdot", "S_underdot", "h_underdot", "H_underdot",
     "m_underdot", "M_underdot", "m_dot", "M_dot", "z_acute", "Z_acute", "a_uml", "A_uml",
     "o_uml", "O_uml", "u_uml", "U_uml", "s_cedilla", "S_cedilla", "n_cedilla", "N_cedilla",
     "a_tilde", "A_tilde", "n_acute", "N_acute", "u_grave", "U_grave", "dotless_i", "rsquo",
     "lsquo", "low9sq", "rev9sq", "ldquo", "rdquo", "low9dq", "laquo", "raquo", "euro", "pound",
     "notsign", "yen", "cent", "section", "currency", "endash", "TIB_KA", "TIB_GA", "TIB_NGA",
     "TIB_NYA", "TIB_NA", "TIB_BA", "TIB_ACHUNG", "TIB_VOWEL_I", "TIB_TSHEG", "TIB_SHAD",
     "TIB_DIGIT_1", "TIB_DIGIT_HALF_1", "DEV_KA", "COMB_MACRON", "PUA_E000"}

\* TIB_RE: the Tibetan block U+0F00-U+0FFF
TIB_CHARS ==
    {"TIB_KA", "TIB_GA", "TIB_NGA", "TIB_NYA", "TIB_NA", "TIB_BA", "TIB_ACHUNG", "TIB_VOWEL_I",
     "TIB_TSHEG", "TIB_SHAD", "TIB_DIGIT_1", "TIB_DIGIT_HALF_1"}

\* DEV_RE: the Devanagari block
DEV_CHARS ==
    {"DEV_KA"}

\* LATIN_RE: [A-Za-z]
LATIN_CHARS ==
    {"a", "b", "c", "d", "e", "f", "g", "h", "i", "j", "k", "l", "m", "n", "o", "p", "q", "r",
     "s", "t", "u", "v", "w", "x", "y", "z", "A", "B", "C", "D", "E", "F", "G", "H", "I", "J",
     "K", "L", "M", "N", "O", "P", "Q", "R", "S", "T", "U", "V", "W", "X", "Y", "Z"}

\* TIB_STRIP_RE / TIB_SYLLABLE_SPLIT_RE character class
TIB_STRIP_CHARS ==
    {" ", "NL", "FF", "TAB", "TIB_TSHEG", "TIB_SHAD", "TIB_DIGIT_1"}

\* DIACRITIC_RE
DIACRITIC_CHARS ==
    {"a_macron", "A_macron", "i_macron", "I_macron", "u_macron", "U_macron", "r_underdot",
     "R_underdot", "rr_underdot", "RR_underdot", "l_underdot", "L_underdot", "ll_underdot",
     "LL_underdot", "n_dot", "N_dot", "n_tilde", "N_tilde", "t_underdot", "T_underdot",
     "d_underdot", "D_underdot", "n_underdot", "N_underdot", "s_acute", "S_acute", "s_underdot",
     "S_underdot", "h_underdot", "H_underdot", "m_underdot", "M_underdot", "m_dot", "M_dot",
     "z_acute", "Z_acute"}

\* the letter class [A-Za-z + lower-case transliteration diacritics] of the lookarounds
TRANSLIT_LETTERS ==
    {"a", "b", "c", "d", "e", "f", "g", "h", "i", "j", "k", "l", "m", "n", "o", "p", "q", "r",
     "s", "t", "u", "v", "w", "x", "y", "z", "A", "B", "C", "D", "E", "F", "G", "H", "I", "J",
     "K", "L", "M", "N", "O", "P", "Q", "R", "S", "T", "U", "V", "W", "X", "Y", "Z", "a_macron",
     "i_macron", "u_macron", "r_underdot", "rr_underdot", "l_underdot", "ll_underdot", "n_dot",
     "n_tilde", "t_underdot", "d_underdot", "n_underdot", "s_acute", "s_underdot", "h_underdot",
     "m_underdot", "m_dot", "z_acute"}

\* ROMAN_TAIL_SUSPECT_RE
ROMAN_TAIL_SUSPECT_CHARS ==
    {"=", "/", "%", "*", "_", "#", "@", "&", "^", "|", "~", "bsl", "pound", "yen", "cent",
     "section", "currency", "TIB_DIGIT_1", "TIB_DIGIT_HALF_1"}

\* TOKEN_TRANSLIT_RE character class
TOKEN_TRANSLIT_CHARS ==
    {"a", "b", "c", "d", "e", "f", "g", "h", "i", "j", "k", "l", "m", "n", "o", "p", "q", "r",
     "s", "t", "u", "v", "w", "x", "y", "z", "A", "B", "C", "D", "E", "F", "G", "H", "I", "J",
     "K", "L", "M", "N", "O", "P", "Q", "R", "S", "T", "U", "V", "W", "X", "Y", "Z", "'",
     "a_macron", "i_macron", "u_macron", "r_underdot", "rr_underdot", "l_underdot",
     "ll_underdot", "n_dot", "n_tilde", "t_underdot", "d_underdot", "n_underdot", "s_acute",
     "s_underdot", "h_underdot", "m_underdot", "m_dot", "z_acute", "a_uml", "A_uml", "u_uml",
     "U_uml", "s_cedilla", "S_cedilla", "n_cedilla", "N_cedilla", "a_tilde", "A_tilde", "rsquo"}

\* TOKEN_DIACRITIC_OR_SKT_RE and the diacritic alternative of TRANSLIT_HINT_RE
TOKEN_DIACRITIC_OR_SKT_CHARS ==
    {"a_macron", "i_macron", "u_macron", "r_underdot", "rr_underdot", "l_underdot",
     "ll_underdot", "n_dot", "n_tilde", "t_underdot", "d_underdot", "n_underdot", "s_acute",
     "s_underdot", "h_underdot", "m_underdot", "m_dot", "z_acute"}

\* TOKEN_ANY_LATIN_RE character class
TOKEN_ANY_LATIN_CHARS ==
    {"a", "b", "c", "d", "e", "f", "g", "h", "i", "j", "k", "l", "m", "n", "o", "p", "q", "r",
     "s", "t", "u", "v", "w", "x", "y", "z", "A", "B", "C", "D", "E", "F", "G", "H", "I", "J",
     "K", "L", "M", "N", "O", "P", "Q", "R", "S", "T", "U", "V", "W", "X", "Y", "Z", "'", "-",
     "a_macron", "i_macron", "u_macron", "r_underdot", "rr_underdot", "l_underdot",
     "ll_underdot", "n_dot", "n_tilde", "t_underdot", "d_underdot", "n_underdot", "s_acute",
     "s_underdot", "h_underdot", "m_underdot", "m_dot", "z_acute", "a_uml", "A_uml", "o_uml",
     "O_uml", "u_uml", "U_uml", "s_cedilla", "S_cedilla", "n_cedilla", "N_cedilla", "a_tilde",
     "A_tilde", "dotless_i", "rsquo"}

\* EQUALS_TRANSLIT_HINT_RE character class
EQUALS_HINT_CHARS ==
    {"a", "b", "c", "d", "e", "f", "g", "h", "i", "j", "k", "l", "m", "n", "o", "p", "q", "r",
     "s", "t", "u", "v", "w", "x", "y", "z", "A", "B", "C", "D", "E", "F", "G", "H", "I", "J",
     "K", "L", "M", "N", "O", "P", "Q", "R", "S", "T", "U", "V", "W", "X", "Y", "Z", "'",
     "a_macron", "i_macron", "u_macron", "r_underdot", "rr_underdot", "l_underdot",
     "ll_underdot", "n_dot", "n_tilde", "t_underdot", "d_underdot", "n_underdot", "s_acute",
     "s_underdot", "h_underdot", "m_underdot", "m_dot", "z_acute", "a_uml", "A_uml", "rsquo"}

\* HEADWORD_SPLIT_RE prefix class (also the run class of translit_tail_after_tibetan)
HEADWORD_PREFIX_CHARS ==
    {" ", "NL", "FF", "TAB", "TIB_KA", "TIB_GA", "TIB_NGA", "TIB_NYA", "TIB_NA", "TIB_BA",
     "TIB_ACHUNG", "TIB_VOWEL_I", "TIB_TSHEG", "TIB_SHAD", "TIB_DIGIT_1", "TIB_DIGIT_HALF_1"}

\* the lookahead class of the N_TILDE_* / N_ACUTE_* patterns (end of text is handled apart)
NASAL_BOUNDARY_CHARS ==
    {" ", ",", ".", ";", ":", "'", "-", "/", ")", "!", "?", "]", "}", "dq", "NL", "FF", "TAB",
     "rsquo", "ldquo", "rdquo", "low9dq", "TIB_TSHEG", "TIB_SHAD"}

\* N_TILDE_BEFORE_IE_RE lookahead class
TILDE_IE_CHARS ==
    {"e", "i", "E", "I", "i_macron", "I_macron"}

\* ROMAN_NOISE_TOKEN_RE character class
ROMAN_NOISE_TOKEN_CHARS ==
    {"0", "1", "2", "3", "4", "5", "6", "7", "8", "9", ",", ".", ";", ":", "-", "/", "%", "+"}

\* ROMAN_NOISE_DIGSYM_RE: the characters that are not symbols
DIGSYM_PLAIN_CHARS ==
    {"a", "b", "c", "d", "e", "f", "g", "h", "i", "j", "k", "l", "m", "n", "o", "p", "q", "r",
     "s", "t", "u", "v", "w", "x", "y", "z", "A", "B", "C", "D", "E", "F", "G", "H", "I", "J",
     "K", "L", "M", "N", "O", "P", "Q", "R", "S", "T", "U", "V", "W", "X", "Y", "Z", "0", "1",
     "2", "3", "4", "5", "6", "7", "8", "9", "a_macron", "i_macron", "u_macron", "r_underdot",
     "rr_underdot", "l_underdot", "ll_underdot", "n_dot", "n_tilde", "t_underdot", "d_underdot",
     "n_underdot", "s_acute", "s_underdot", "h_underdot", "m_underdot", "m_dot", "z_acute",
     "a_uml", "A_uml", "o_uml", "O_uml", "u_uml", "U_uml", "dotless_i"}

\* STRAY_SYMBOL_DROP_RE
STRAY_SYMBOL_CHARS ==
    {"euro", "pound", "notsign"}

\* PUNCT_STRIP_RE character class
PUNCT_STRIP_CHARS ==
    {"=", ",", ".", ";", ":", "'", "-", "/", "(", ")", "%", "+", "!", "?", "*", "_", "#", "@",
     "&", "^", "|", "~", "[", "]", "{", "}", "<", ">", "dq", "backtick", "bsl", "rsquo",
     "ldquo", "rdquo", "low9dq"}

\* WORD_RE letter class
WORD_CHARS ==
    {"a", "b", "c", "d", "e", "f", "g", "h", "i", "j", "k", "l", "m", "n", "o", "p", "q", "r",
     "s", "t", "u", "v", "w", "x", "y", "z", "A", "B", "C", "D", "E", "F", "G", "H", "I", "J",
     "K", "L", "M", "N", "O", "P", "Q", "R", "S", "T", "U", "V", "W", "X", "Y", "Z", "a_macron",
     "i_macron", "u_macron", "r_underdot", "rr_underdot", "l_underdot", "ll_underdot", "n_dot",
     "n_tilde", "t_underdot", "d_underdot", "n_underdot", "s_acute", "s_underdot", "h_underdot",
     "m_underdot", "m_dot", "z_acute", "a_uml", "A_uml", "o_uml", "O_uml", "u_uml", "U_uml",
     "s_cedilla", "S_cedilla", "n_cedilla", "N_cedilla", "a_tilde", "A_tilde", "dotless_i"}

\* SUSPECT_SYMBOL_RE
SUSPECT_SYMBOL_CHARS ==
    {"pound", "yen", "cent", "section", "currency"}

\* TRANSLIT_CHAR_RE
TRANSLIT_CHAR_CHARS ==
    {"a", "b", "c", "d", "e", "f", "g", "h", "i", "j", "k", "l", "m", "n", "o", "p", "q", "r",
     "s", "t", "u", "v", "w", "x", "y", "z", "A", "B", "C", "D", "E", "F", "G", "H", "I", "J",
     "K", "L", "M", "N", "O", "P", "Q", "R", "S", "T", "U", "V", "W", "X", "Y", "Z", "a_macron",
     "i_macron", "u_macron", "r_underdot", "rr_underdot", "l_underdot", "ll_underdot", "n_dot",
     "n_tilde", "t_underdot", "d_underdot", "n_underdot", "s_acute", "s_underdot", "h_underdot",
     "m_underdot", "m_dot", "z_acute", "a_uml", "A_uml", "o_uml", "O_uml", "u_uml", "U_uml",
     "s_cedilla", "S_cedilla", "n_cedilla", "N_cedilla", "a_tilde", "A_tilde", "dotless_i"}

\* roman_tail_noise_score character class
TAIL_NOISE_CHARS ==
    {"0", "1", "2", "3", "4", "5", "6", "7", "8", "9", "$", "=", ":", "/", "%", "*", "_", "#",
     "@", "&", "^", "|", "~", "bsl", "pound", "yen", "cent", "section", "currency"}

\* token_looks_sanskritic cedilla class
CEDILLA_HINT_CHARS ==
    {"s_cedilla", "S_cedilla", "n_cedilla", "N_cedilla", "a_tilde", "A_tilde"}

\* regex \s and str.isspace()
SPACE_CHARS ==
    {" ", "NL", "FF", "TAB"}

\* regex \w (decides \b)
RE_WORD_CHARS ==
    {"a", "b", "c", "d", "e", "f", "g", "h", "i", "j", "k", "l", "m", "n", "o", "p", "q", "r",
     "s", "t", "u", "v", "w", "x", "y", "z", "A", "B", "C", "D", "E", "F", "G", "H", "I", "J",
     "K", "L", "M", "N", "O", "P", "Q", "R", "S", "T", "U", "V", "W", "X", "Y", "Z", "0", "1",
     "2", "3", "4", "5", "6", "7", "8", "9", "_", "a_macron", "A_macron", "i_macron",
     "I_macron", "u_macron", "U_macron", "r_underdot", "R_underdot", "rr_underdot",
     "RR_underdot", "l_underdot", "L_underdot", "ll_underdot", "LL_underdot", "n_dot", "N_dot",
     "n_tilde", "N_tilde", "t_underdot", "T_underdot", "d_underdot", "D_underdot", "n_underdot",
     "N_underdot", "s_acute", "S_acute", "s_underdot", "S_underdot", "h_underdot", "H_underdot",
     "m_underdot", "M_underdot", "m_dot", "M_dot", "z_acute", "Z_acute", "a_uml", "A_uml",
     "o_uml", "O_uml", "u_uml", "U_uml", "s_cedilla", "S_cedilla", "n_cedilla", "N_cedilla",
     "a_tilde", "A_tilde", "n_acute", "N_acute", "u_grave", "U_grave", "dotless_i", "TIB_KA",
     "TIB_GA", "TIB_NGA", "TIB_NYA", "TIB_NA", "TIB_BA", "TIB_ACHUNG", "TIB_DIGIT_1",
     "TIB_DIGIT_HALF_1", "DEV_KA"}

\* regex \d (Unicode decimal digits)
DIGIT_CHARS ==
    {"0", "1", "2", "3", "4", "5", "6", "7", "8", "9", "TIB_DIGIT_1"}

\* SKT_CONTEXT_RE lookahead class
SKT_LOOKAHEAD_CHARS ==
    {" ", ",", ";", ":", ")", "]", "}", "NL", "FF", "TAB"}

\* end_marks of sanskrit_marker_ranges
SKT_END_MARKS ==
    {",", ".", ";", ":", ")", "!", "?", "]", "}", "dq", "ldquo", "rdquo", "raquo"}

\* stop characters of the '=' scan in sanskrit_marker_ranges
EQUALS_STOP_CHARS ==
    {",", ".", ";", ":", ")", "]", "}", "dq", "ldquo", "rdquo"}

\* DEHYPH_LINE_END_RE character class
DEHYPH_TAIL_CHARS ==
    {"a", "b", "c", "d", "e", "f", "g", "h", "i", "j", "k", "l", "m", "n", "o", "p", "q", "r",
     "s", "t", "u", "v", "w", "x", "y", "z", "A", "B", "C", "D", "E", "F", "G", "H", "I", "J",
     "K", "L", "M", "N", "O", "P", "Q", "R", "S", "T", "U", "V", "W", "X", "Y", "Z", "a_macron",
     "i_macron", "u_macron", "r_underdot", "rr_underdot", "l_underdot", "ll_underdot", "n_dot",
     "n_tilde", "t_underdot", "d_underdot", "n_underdot", "s_acute", "s_underdot", "h_underdot",
     "m_underdot", "m_dot", "z_acute", "a_uml", "A_uml", "o_uml", "O_uml", "u_uml", "U_uml"}

\* the umlauts normalize_translit_token_dieresis rewrites
UMLAUT_CHARS ==
    {"a_uml", "A_uml", "u_uml", "U_uml"}

\* the apostrophes of PA_APOSTROPHE_RE
APOSTROPHE_CHARS ==
    {"'", "rsquo"}

\* QUOTE_NORMALIZE_MAP
QUOTE_NORMALIZE_MAP ==
    {<<"rsquo", "'">>, <<"lsquo", "'">>, <<"low9sq", "'">>, <<"rev9sq", "'">>,
     <<"ldquo", "dq">>, <<"rdquo", "dq">>, <<"low9dq", "dq">>, <<"laquo", "dq">>,
     <<"raquo", "dq">>}

\* DIACRITIC_BASE_TABLE
DIACRITIC_BASE_TABLE ==
    {<<"a_macron", "a">>, <<"A_macron", "A">>, <<"i_macron", "i">>, <<"I_macron", "I">>,
     <<"u_macron", "u">>, <<"U_macron", "U">>, <<"r_underdot", "r">>, <<"R_underdot", "R">>,
     <<"rr_underdot", "r">>, <<"RR_underdot", "R">>, <<"l_underdot", "l">>,
     <<"L_underdot", "L">>, <<"ll_underdot", "l">>, <<"LL_underdot", "L">>, <<"n_dot", "n">>,
     <<"N_dot", "N">>, <<"n_tilde", "n">>, <<"N_tilde", "N">>, <<"t_underdot", "t">>,
     <<"T_underdot", "T">>, <<"d_underdot", "d">>, <<"D_underdot", "D">>, <<"n_underdot", "n">>,
     <<"N_underdot", "N">>, <<"s_acute", "s">>, <<"S_acute", "S">>, <<"s_underdot", "s">>,
     <<"S_underdot", "S">>, <<"h_underdot", "h">>, <<"H_underdot", "H">>, <<"m_underdot", "m">>,
     <<"M_underdot", "M">>, <<"m_dot", "m">>, <<"M_dot", "M">>, <<"z_acute", "z">>,
     <<"Z_acute", "Z">>, <<"a_uml", "a">>, <<"A_uml", "A">>, <<"s_cedilla", "s">>,
     <<"S_cedilla", "S">>, <<"n_cedilla", "n">>, <<"N_cedilla", "N">>, <<"a_tilde", "a">>,
     <<"A_tilde", "A">>}

\* SANSKRIT_CEDILLA_MAP
SANSKRIT_CEDILLA_MAP ==
    {<<"s_cedilla", "s_underdot">>, <<"S_cedilla", "S_underdot">>,
     <<"n_cedilla", "n_underdot">>, <<"N_cedilla", "N_underdot">>, <<"a_tilde", "a_macron">>,
     <<"A_tilde", "A_macron">>}

\* str.lower() on the modelled characters
LOWER_MAP ==
    {<<"A", "a">>, <<"B", "b">>, <<"C", "c">>, <<"D", "d">>, <<"E", "e">>, <<"F", "f">>,
     <<"G", "g">>, <<"H", "h">>, <<"I", "i">>, <<"J", "j">>, <<"K", "k">>, <<"L", "l">>,
     <<"M", "m">>, <<"N", "n">>, <<"O", "o">>, <<"P", "p">>, <<"Q", "q">>, <<"R", "r">>,
     <<"S", "s">>, <<"T", "t">>, <<"U", "u">>, <<"V", "v">>, <<"W", "w">>, <<"X", "x">>,
     <<"Y", "y">>, <<"Z", "z">>, <<"A_macron", "a_macron">>, <<"I_macron", "i_macron">>,
     <<"U_macron", "u_macron">>, <<"R_underdot", "r_underdot">>,
     <<"RR_underdot", "rr_underdot">>, <<"L_underdot", "l_underdot">>,
     <<"LL_underdot", "ll_underdot">>, <<"N_dot", "n_dot">>, <<"N_tilde", "n_tilde">>,
     <<"T_underdot", "t_underdot">>, <<"D_underdot", "d_underdot">>,
     <<"N_underdot", "n_underdot">>, <<"S_acute", "s_acute">>, <<"S_underdot", "s_underdot">>,
     <<"H_underdot", "h_underdot">>, <<"M_underdot", "m_underdot">>, <<"M_dot", "m_dot">>,
     <<"Z_acute", "z_acute">>, <<"A_uml", "a_uml">>, <<"O_uml", "o_uml">>, <<"U_uml", "u_uml">>,
     <<"S_cedilla", "s_cedilla">>, <<"N_cedilla", "n_cedilla">>, <<"A_tilde", "a_tilde">>,
     <<"N_acute", "n_acute">>, <<"U_grave", "u_grave">>}

\* unicodedata.normalize("NFC", .): the base + combining mark pairs that compose
NFC_PAIRS ==
    {<<"a", "COMB_MACRON", "a_macron">>, <<"i", "COMB_MACRON", "i_macron">>,
     <<"u", "COMB_MACRON", "u_macron">>, <<"A", "COMB_MACRON", "A_macron">>,
     <<"I", "COMB_MACRON", "I_macron">>, <<"U", "COMB_MACRON", "U_macron">>,
     <<"r_underdot", "COMB_MACRON", "rr_underdot">>,
     <<"R_underdot", "COMB_MACRON", "RR_underdot">>,
     <<"l_underdot", "COMB_MACRON", "ll_underdot">>,
     <<"L_underdot", "COMB_MACRON", "LL_underdot">>}
(***************************************************************************)
(* ng_dot_candidate_report.py and token_variant_report.py: the character   *)
(* classes and the tables                                                  *)
(***************************************************************************)

\* LATIN_TOKEN_RE of ng_dot_candidate_report: the characters of a token (hyphens join runs)
NG_LATIN_TOKEN_CHARS ==
    {"a", "b", "c", "d", "e", "f", "g", "h", "i", "j", "k", "l", "m", "n", "o", "p", "q", "r",
     "s", "t", "u", "v", "w", "x", "y", "z", "A", "B", "C", "D", "E", "F", "G", "H", "I", "J",
     "K", "L", "M", "N", "O", "P", "Q", "R", "S", "T", "U", "V", "W", "X", "Y", "Z", "'",
     "a_macron", "A_macron", "i_macron", "I_macron", "u_macron", "U_macron", "r_underdot",
     "R_underdot", "rr_underdot", "RR_underdot", "l_underdot", "L_underdot", "ll_underdot",
     "LL_underdot", "n_dot", "N_dot", "n_tilde", "N_tilde", "t_underdot", "T_underdot",
     "d_underdot", "D_underdot", "n_underdot", "N_underdot", "s_acute", "S_acute", "s_underdot",
     "S_underdot", "h_underdot", "H_underdot", "m_underdot", "M_underdot", "m_dot", "M_dot",
     "z_acute", "Z_acute", "a_uml", "A_uml", "o_uml", "O_uml", "u_uml", "U_uml", "dotless_i",
     "rsquo"}

\* LATIN_TOKEN_RE of token_variant_report: the characters of a token (hyphens join runs)
TV_LATIN_TOKEN_CHARS ==
    {"a", "b", "c", "d", "e", "f", "g", "h", "i", "j", "k", "l", "m", "n", "o", "p", "q", "r",
     "s", "t", "u", "v", "w", "x", "y", "z", "A", "B", "C", "D", "E", "F", "G", "H", "I", "J",
     "K", "L", "M", "N", "O", "P", "Q", "R", "S", "T", "U", "V", "W", "X", "Y", "Z", "a_macron",
     "A_macron", "i_macron", "I_macron", "u_macron", "U_macron", "r_underdot", "R_underdot",
     "rr_underdot", "RR_underdot", "l_underdot", "L_underdot", "ll_underdot", "LL_underdot",
     "n_dot", "N_dot", "n_tilde", "N_tilde", "t_underdot", "T_underdot", "d_underdot",
     "D_underdot", "n_underdot", "N_underdot", "s_acute", "S_acute", "s_underdot", "S_underdot",
     "h_underdot", "H_underdot", "m_underdot", "M_underdot", "m_dot", "M_dot", "z_acute",
     "Z_acute", "a_uml", "A_uml", "o_uml", "O_uml", "u_uml", "U_uml", "s_cedilla", "S_cedilla",
     "n_cedilla", "N_cedilla", "a_tilde", "A_tilde", "dotless_i"}

\* ROMAN_CUE_RE: the one-character alternative, under re.IGNORECASE
ROMAN_CUE_CHARS ==
    {"'", "a_macron", "A_macron", "i_macron", "I_macron", "u_macron", "U_macron", "r_underdot",
     "R_underdot", "rr_underdot", "RR_underdot", "l_underdot", "L_underdot", "ll_underdot",
     "LL_underdot", "n_dot", "N_dot", "n_tilde", "N_tilde", "t_underdot", "T_underdot",
     "d_underdot", "D_underdot", "n_underdot", "N_underdot", "s_acute", "S_acute", "s_underdot",
     "S_underdot", "h_underdot", "H_underdot", "m_underdot", "M_underdot", "m_dot", "M_dot",
     "z_acute", "Z_acute", "rsquo"}

\* TOKEN_VALID_RE character class, also the class of maybe_translit_shape
TOKEN_VALID_CHARS ==
    {"a", "b", "c", "d", "e", "f", "g", "h", "i", "j", "k", "l", "m", "n", "o", "p", "q", "r",
     "s", "t", "u", "v", "w", "x", "y", "z", "'", "-", "a_macron", "i_macron", "u_macron",
     "r_underdot", "rr_underdot", "l_underdot", "ll_underdot", "n_dot", "n_tilde", "t_underdot",
     "d_underdot", "n_underdot", "s_acute", "s_underdot", "h_underdot", "m_underdot", "m_dot",
     "z_acute", "rsquo"}

\* SYMBOL_OR_DIGIT_RE
SYMBOL_OR_DIGIT_CHARS ==
    {"0", "1", "2", "3", "4", "5", "6", "7", "8", "9", "=", "/", "%", "*", "_", "#", "@", "&",
     "^", "|", "~", "bsl", "euro", "pound", "notsign", "yen", "cent", "section", "currency",
     "TIB_DIGIT_1"}

\* IAST_RE
IAST_CHARS ==
    {"a_macron", "A_macron", "i_macron", "I_macron", "u_macron", "U_macron", "r_underdot",
     "R_underdot", "rr_underdot", "RR_underdot", "l_underdot", "L_underdot", "ll_underdot",
     "LL_underdot", "n_dot", "N_dot", "n_tilde", "N_tilde", "t_underdot", "T_underdot",
     "d_underdot", "D_underdot", "n_underdot", "N_underdot", "s_acute", "S_acute", "s_underdot",
     "S_underdot", "h_underdot", "H_underdot", "m_underdot", "M_underdot", "m_dot", "M_dot",
     "z_acute", "Z_acute"}

\* the lower-case diacritics that token_quality_score counts
IAST_LOWER_CHARS ==
    {"a_macron", "i_macron", "u_macron", "r_underdot", "rr_underdot", "l_underdot",
     "ll_underdot", "n_dot", "n_tilde", "t_underdot", "d_underdot", "n_underdot", "s_acute",
     "s_underdot", "h_underdot", "m_underdot", "m_dot", "z_acute"}

\* the class of the clean transliteration token in token_quality_score
QUALITY_TRANSLIT_CHARS ==
    {"a", "b", "c", "d", "e", "f", "g", "h", "i", "j", "k", "l", "m", "n", "o", "p", "q", "r",
     "s", "t", "u", "v", "w", "x", "y", "z", "A", "B", "C", "D", "E", "F", "G", "H", "I", "J",
     "K", "L", "M", "N", "O", "P", "Q", "R", "S", "T", "U", "V", "W", "X", "Y", "Z", "'", "-",
     "a_macron", "i_macron", "u_macron", "r_underdot", "rr_underdot", "l_underdot",
     "ll_underdot", "n_dot", "n_tilde", "t_underdot", "d_underdot", "n_underdot", "s_acute",
     "s_underdot", "h_underdot", "m_underdot", "m_dot", "z_acute", "rsquo"}

\* GERMAN_RE
GERMAN_CHARS ==
    {"a_uml", "A_uml", "o_uml", "O_uml", "u_uml", "U_uml"}

\* TITLE_NAME_RE: the first character of a name part
TITLE_UPPER_CHARS ==
    {"A", "B", "C", "D", "E", "F", "G", "H", "I", "J", "K", "L", "M", "N", "O", "P", "Q", "R",
     "S", "T", "U", "V", "W", "X", "Y", "Z", "A_uml", "O_uml", "U_uml"}

\* TITLE_NAME_RE: the other characters of a name part
TITLE_LETTER_CHARS ==
    {"a", "b", "c", "d", "e", "f", "g", "h", "i", "j", "k", "l", "m", "n", "o", "p", "q", "r",
     "s", "t", "u", "v", "w", "x", "y", "z", "A", "B", "C", "D", "E", "F", "G", "H", "I", "J",
     "K", "L", "M", "N", "O", "P", "Q", "R", "S", "T", "U", "V", "W", "X", "Y", "Z", "a_uml",
     "A_uml", "o_uml", "O_uml", "u_uml", "U_uml"}

\* the lower-case letters of the capitalised name in token_quality_score
GERMAN_LOWER_CHARS ==
    {"a", "b", "c", "d", "e", "f", "g", "h", "i", "j", "k", "l", "m", "n", "o", "p", "q", "r",
     "s", "t", "u", "v", "w", "x", "y", "z", "a_uml", "o_uml", "u_uml"}

\* CONFUSABLE_FROM
CONFUSABLE_FROM ==
    {<<"$", "s_acute">>, <<"dotless_i", "i">>, <<"I", "l">>, <<"s_cedilla", "s_underdot">>,
     <<"S_cedilla", "S_underdot">>, <<"n_cedilla", "n_underdot">>,
     <<"N_cedilla", "N_underdot">>, <<"a_tilde", "a_macron">>, <<"A_tilde", "A_macron">>,
     <<"u_grave", "n_dot">>, <<"n_tilde", "n_dot">>, <<"n_acute", "n_dot">>,
     <<"a_uml", "a_macron">>, <<"A_uml", "A_macron">>, <<"u_uml", "u_macron">>,
     <<"U_uml", "U_macron">>}

\* CANON_MAP
CANON_MAP ==
    {<<"a_macron", "a">>, <<"A_macron", "a">>, <<"i_macron", "i">>, <<"I_macron", "i">>,
     <<"u_macron", "u">>, <<"U_macron", "u">>, <<"r_underdot", "r">>, <<"R_underdot", "r">>,
     <<"rr_underdot", "r">>, <<"RR_underdot", "r">>, <<"l_underdot", "l">>,
     <<"L_underdot", "l">>, <<"ll_underdot", "l">>, <<"LL_underdot", "l">>, <<"n_dot", "n">>,
     <<"N_dot", "n">>, <<"n_tilde", "n">>, <<"N_tilde", "n">>, <<"t_underdot", "t">>,
     <<"T_underdot", "t">>, <<"d_underdot", "d">>, <<"D_underdot", "d">>, <<"n_underdot", "n">>,
     <<"N_underdot", "n">>, <<"s_acute", "s">>, <<"S_acute", "s">>, <<"s_underdot", "s">>,
     <<"S_underdot", "s">>, <<"h_underdot", "h">>, <<"H_underdot", "h">>, <<"m_underdot", "m">>,
     <<"M_underdot", "m">>, <<"m_dot", "m">>, <<"M_dot", "m">>, <<"z_acute", "z">>,
     <<"Z_acute", "z">>, <<"a_uml", "a">>, <<"A_uml", "a">>, <<"o_uml", "o">>, <<"O_uml", "o">>,
     <<"u_uml", "u">>, <<"U_uml", "u">>, <<"dotless_i", "i">>, <<"s_cedilla", "s">>,
     <<"S_cedilla", "s">>, <<"n_cedilla", "n">>, <<"N_cedilla", "n">>, <<"a_tilde", "a">>,
     <<"A_tilde", "a">>}


(***************************************************************************)
(* Sequence and regular-expression helpers                                 *)
(***************************************************************************)

\* dict / str.translate lookup: the image of c under a set of <<from, to>> pairs
MapChar(map, c) ==
    IF \E p \in map : p[1] = c THEN (CHOOSE p \in map : p[1] = c)[2] ELSE c

\* the sequence with the elements of the function f on 1..n
AsSeq(f) == f \o <<>>

\* F(v) with v computed once: a local variable that holds v
With(v, F(_)) == F(v)

\* the least and the greatest element of a non-empty set of integers
Min(S) == CHOOSE i \in S : \A j \in S : i <= j
Max(S) == CHOOSE i \in S : \A j \in S : i >= j

\* str.translate(table)
Translate(map, s) == AsSeq([i \in 1..Len(s) |-> MapChar(map, s[i])])

\* "".join(parts)
RECURSIVE Flat(_)
Flat(ss) == IF ss = <<>> THEN <<>> ELSE Head(ss) \o Flat(Tail(ss))

\* sep.join(parts)
RECURSIVE JoinWith(_, _)
JoinWith(sep, ss) ==
    IF ss = <<>> THEN <<>>
    ELSE IF Len(ss) = 1 THEN ss[1]
    ELSE ss[1] \o sep \o JoinWith(sep, Tail(ss))

\* s.split(c) for a separator of one character
RECURSIVE SplitOn(_, _)
SplitOn(s, c) ==
    With({i \in 1..Len(s) : s[i] = c}, LAMBDA at :
        IF at = {} THEN <<s>>
        ELSE <<SubSeq(s, 1, Min(at) - 1)>> \o SplitOn(SubSeq(s, Min(at) + 1, Len(s)), c))

\* len(RE.findall(s)) for a one-character class
Count(s, class) == Cardinality({i \in 1..Len(s) : s[i] \in class})

\* bool(RE.search(s)) for a one-character class
HasAny(s, class) == \E i \in 1..Len(s) : s[i] \in class

\* RE.sub("", s) for a one-character class
DropChars(s, class) == SelectSeq(s, LAMBDA c : c \notin class)

\* s[i-1:] in Python terms: the suffix that starts at the 1-based position i
From(s, i) == SubSeq(s, i, Len(s))

\* needle in s
Contains(s, needle) ==
    \E i \in 1..(Len(s) - Len(needle) + 1) : SubSeq(s, i, i + Len(needle) - 1) = needle

\* str.lower() (equal to str.casefold() on the modelled alphabet)
Lower(s) == Translate(LOWER_MAP, s)

\* the literal lit matches at position i
MatchAt(s, i, lit) == i >= 1 /\ i + Len(lit) - 1 <= Len(s) /\ SubSeq(s, i, i + Len(lit) - 1) = lit

\* the literal lit matches at position i under re.IGNORECASE
MatchAtI(s, i, lit) ==
    i >= 1 /\ i + Len(lit) - 1 <= Len(s) /\ Lower(SubSeq(s, i, i + Len(lit) - 1)) = lit

\* regex \b between positions i-1 and i (i in 1..Len(s)+1)
WordBoundary(s, i) ==
    (i > 1 /\ s[i-1] \in RE_WORD_CHARS) # (i <= Len(s) /\ s[i] \in RE_WORD_CHARS)

\* regex $ at position i: at the end of the text or before a final newline
AtEnd(s, i) == i = Len(s) + 1 \/ (i = Len(s) /\ s[i] = "NL")

\* str.isspace(): non-empty and all whitespace
IsSpaceStr(p) == Len(p) > 0 /\ \A i \in 1..Len(p) : p[i] \in SPACE_CHARS

\* str.strip()
Strip(s) ==
    With({i \in 1..Len(s) : s[i] \notin SPACE_CHARS},
         LAMBDA nz : IF nz = {} THEN <<>> ELSE SubSeq(s, Min(nz), Max(nz)))

\* str.rstrip()
RStrip(s) ==
    With({i \in 1..Len(s) : s[i] \notin SPACE_CHARS},
         LAMBDA nz : IF nz = {} THEN <<>> ELSE SubSeq(s, 1, Max(nz)))

\* str.lstrip()
LStrip(s) ==
    With({i \in 1..Len(s) : s[i] \notin SPACE_CHARS},
         LAMBDA nz : IF nz = {} THEN <<>> ELSE From(s, Min(nz)))

\* the end of the maximal run of whitespace / of non-whitespace that starts at i
RunEnd(s, i) ==
    CHOOSE j \in i..Len(s) :
        /\ \A k \in i..j : (s[k] \in SPACE_CHARS) = (s[i] \in SPACE_CHARS)
        /\ (j = Len(s) \/ (s[j+1] \in SPACE_CHARS) # (s[i] \in SPACE_CHARS))

RECURSIVE RunsFrom(_, _)
RunsFrom(s, i) ==
    IF i > Len(s) THEN <<>>
    ELSE With(RunEnd(s, i), LAMBDA e : <<SubSeq(s, i, e)>> \o RunsFrom(s, e + 1))

\* re.split(r"(\s+)", s) without the empty strings (every caller skips them)
SplitWs(s) == RunsFrom(s, 1)

\* unicodedata.normalize("NFC", s) on the modelled alphabet
RECURSIVE NFC(_)
NFC(s) ==
    IF Len(s) < 2 THEN s
    ELSE IF \E p \in NFC_PAIRS : p[1] = s[1] /\ p[2] = s[2]
         THEN NFC(<<(CHOOSE p \in NFC_PAIRS : p[1] = s[1] /\ p[2] = s[2])[3]>> \o From(s, 3))
         ELSE <<s[1]>> \o NFC(Tail(s))

\* WS_RE.sub(" ", s).strip(): every whitespace run becomes one space, none at the ends
CollapseWs(s) ==
    With(SelectSeq([i \in 1..Len(s) |-> i],
             LAMBDA i : \/ s[i] \notin SPACE_CHARS
                        \/ /\ i > 1
                           /\ s[i-1] \notin SPACE_CHARS
                           /\ \E j \in (i+1)..Len(s) : s[j] \notin SPACE_CHARS),
         LAMBDA keep :
             AsSeq([k \in 1..Len(keep) |-> IF s[keep[k]] \in SPACE_CHARS THEN " " ELSE s[keep[k]]]))

normalize_text(s) ==
    LET s1 == NFC(s)
        s2 == Translate(QUOTE_NORMALIZE_MAP, s1)
        s3 == Translate({<<"dotless_i", "i">>}, s2)
        s4 == Translate({<<"FF", " ">>, <<"NL", " ">>}, s3)
    IN  CollapseWs(s4)

(***************************************************************************)
(* Zone Classifier                                                         *)
(***************************************************************************)

\* the last position of the maximal run of class characters that starts at i (i-1 if none)
ClassRunEnd(s, i, class) ==
    CHOOSE j \in (i-1)..Len(s) :
        /\ \A k \in i..j : s[k] \in class
        /\ (j = Len(s) \/ s[j+1] \notin class)

\* the first position of s that holds a character of class (0 if none)
FirstIn(s, class) ==
    IF HasAny(s, class)
    THEN CHOOSE i \in 1..Len(s) : s[i] \in class /\ \A j \in 1..(i-1) : s[j] \notin class
    ELSE 0

translit_tail_after_tibetan(s) ==
    With(FirstIn(s, TIB_CHARS),
         LAMBDA i : IF i = 0 THEN <<>>
                    ELSE normalize_text(From(s, ClassRunEnd(s, i + 1, HEADWORD_PREFIX_CHARS) + 1)))

\* HEADWORD_SPLIT_RE.match followed by the checks of split_tibetan_prefix_tail;
\* the result is <<prefix, tail>>
split_tibetan_prefix_tail(s) ==
    With(ClassRunEnd(s, 1, SPACE_CHARS), LAMBDA lead :
    With(ClassRunEnd(s, lead + 1, HEADWORD_PREFIX_CHARS), LAMBDA pend :
    With(From(s, pend + 1), LAMBDA rest :
    With({i \in 1..Len(rest) : rest[i] = "NL"}, LAMBDA nls :
        IF pend <= lead THEN << <<>>, <<>> >>
        ELSE IF nls = {} THEN <<SubSeq(s, lead + 1, pend), normalize_text(rest)>>
        ELSE IF nls = {Len(rest)}
             THEN <<SubSeq(s, lead + 1, pend), normalize_text(SubSeq(rest, 1, Len(rest) - 1))>>
        ELSE << <<>>, <<>> >>))))

BIBLIO_MARKERS ==
    {<<"e", "d", ":">>, <<"e", "d", ".", ":">>, <<"h", "r", "s", "g", ".">>, <<"p", "p", ".">>,
     <<"v", "o", "l", ".">>, <<"n", "r", ".">>, <<"n", "o", ".">>, <<"i", "b", "i", "d", ".">>,
     <<"c", "f", ".">>, <<"t", "r", "a", "n", "s", ".">>, <<"t", "r", ".">>}

\* BIBLIO_MARKER_RE matches at position i: \b, a marker, \b
BiblioMarkerAt(s, i) ==
    /\ WordBoundary(s, i)
    /\ \E mk \in BIBLIO_MARKERS : MatchAtI(s, i, mk) /\ WordBoundary(s, i + Len(mk))

\* YEAR_RE matches at position i
YearAt(s, i) ==
    /\ i + 3 <= Len(s)
    /\ WordBoundary(s, i)
    /\ \/ s[i] = "1" /\ s[i+1] \in {"8", "9"}
       \/ s[i] = "2" /\ s[i+1] = "0"
    /\ s[i+2] \in DIGIT_CHARS /\ s[i+3] \in DIGIT_CHARS
    /\ WordBoundary(s, i + 4)

is_bibliography_line(s) ==
    With(Cardinality({i \in 1..Len(s) : BiblioMarkerAt(s, i)}), LAMBDA marker_hits :
    With(Cardinality({i \in 1..Len(s) : YearAt(s, i)}), LAMBDA year_hits :
    With(Count(s, {","}), LAMBDA comma_hits :
    With(Count(s, {";"}), LAMBDA semicolon_hits :
        /\ s # <<>>
        /\ HasAny(s, LATIN_CHARS)
        /\ \/ marker_hits >= 1 /\ year_hits >= 1
           \/ year_hits >= 2
           \/ marker_hits >= 1 /\ comma_hits + semicolon_hits >= 2))))

token_to_ascii_base(token) ==
    With(Lower(Translate(DIACRITIC_BASE_TABLE, normalize_text(token))), LAMBDA t1 :
    With(Translate({<<"a_uml", "a">>, <<"o_uml", "o">>, <<"u_uml", "u">>}, t1), LAMBDA t2 :
        DropChars(t2, {"-"})))

\* TOKEN_ANY_LATIN_RE.match(token)
TokenAnyLatin(token) ==
    /\ Len(token) > 0
    /\ \A i \in 1..Len(token) : token[i] \in TOKEN_ANY_LATIN_CHARS \/ (i = Len(token) /\ token[i] = "NL" /\ i > 1)

\* TOKEN_TRANSLIT_RE.match(token)
TokenTranslit(token) ==
    /\ Len(token) > 0
    /\ \A i \in 1..Len(token) : token[i] \in TOKEN_TRANSLIT_CHARS \/ (i = Len(token) /\ token[i] = "NL" /\ i > 1)

SANSKRIT_HINT_SUBSTRINGS ==
    {<<"s", "u", "t", "r", "a">>, <<"t", "a", "n", "t", "r", "a">>, <<"k", "a", "r", "i", "k", "a">>,
     <<"v", "i", "n", "a", "y", "a">>, <<"a", "b", "h", "i", "d", "h", "a", "r", "m", "a">>,
     <<"a", "b", "h", "i", "d", "h", "a", "n", "a">>, <<"n", "i", "d", "a", "n", "a">>,
     <<"b", "h", "u", "m", "i", "k", "a">>, <<"m", "e", "g", "h", "a">>, <<"d", "u", "t", "a">>,
     <<"d", "h", "a", "r", "m", "a">>, <<"p", "r", "a", "j", "n", "a">>, <<"v", "a", "j", "r", "a">>,
     <<"y", "o", "g", "a">>, <<"m", "a", "n", "t", "r", "a">>}

\* the aspirate / retroflex clusters of token_looks_sanskritic
SANSKRIT_CLUSTERS ==
    {<<"b", "h">>, <<"d", "h">>, <<"g", "h">>, <<"k", "h">>, <<"p", "h">>, <<"t", "h">>,
     <<"s", "h">>, <<"t", "s", "h">>, <<"d", "z">>, <<"r", "d", "z">>}

token_looks_sanskritic(token) ==
    IF token = <<>> THEN FALSE
    ELSE IF ~TokenAnyLatin(token) THEN FALSE
    ELSE IF HasAny(token, DIACRITIC_CHARS) THEN TRUE
    ELSE IF HasAny(token, CEDILLA_HINT_CHARS) THEN TRUE
    ELSE With(token_to_ascii_base(token), LAMBDA base :
             IF base = <<>> THEN FALSE
             ELSE IF \E h \in SANSKRIT_HINT_SUBSTRINGS : Contains(base, h) THEN TRUE
             ELSE \E c \in SANSKRIT_CLUSTERS : Contains(base, c))

\* position i lies inside a WORD_RE match: a letter, or a hyphen between two letters
InWord(s, i) ==
    \/ s[i] \in WORD_CHARS
    \/ s[i] = "-" /\ i > 1 /\ i < Len(s) /\ s[i-1] \in WORD_CHARS /\ s[i+1] \in WORD_CHARS

\* a WORD_RE match starts at position i
WordStart(s, i) == InWord(s, i) /\ (i = 1 \/ ~InWord(s, i - 1))

\* the last position of the WORD_RE match that starts at i
WordEnd(s, i) ==
    CHOOSE j \in i..Len(s) :
        /\ \A k \in i..j : InWord(s, k)
        /\ (j = Len(s) \/ ~InWord(s, j + 1))

\* WORD_RE.findall(s), as a set
Words(s) == {SubSeq(s, i, WordEnd(s, i)) : i \in {j \in 1..Len(s) : WordStart(s, j)}}

SKT_MARKERS ==
    {<<"s", "k", "t">>, <<"s", "k", "r">>, <<"s", "a", "n", "s", "k", "r", "i", "t">>}

\* the lookahead (?=\s|$|[:;,\)\]\}]) of SKT_CONTEXT_RE at position p
SktLookahead(s, p) == AtEnd(s, p) \/ (p <= Len(s) /\ s[p] \in SKT_LOOKAHEAD_CHARS)

\* SKT_CONTEXT_RE matches at i; the value is m.end() as the position after the match, 0 if no match
SktMatchEnd(s, i) ==
    IF WordBoundary(s, i) /\ \E mk \in SKT_MARKERS : MatchAtI(s, i, mk)
    THEN With(i + Len(CHOOSE mk \in SKT_MARKERS : MatchAtI(s, i, mk)), LAMBDA e :
             IF e <= Len(s) /\ s[e] = "." /\ SktLookahead(s, e + 1) THEN e + 1
             ELSE IF SktLookahead(s, e) THEN e
             ELSE 0)
    ELSE 0

\* bool(SKT_CONTEXT_RE.search(s))
SktContext(s) == \E i \in 1..Len(s) : SktMatchEnd(s, i) > 0

\* bool(EQUALS_TRANSLIT_HINT_RE.search(s))
EqualsTranslitHint(s) ==
    \E i \in 1..Len(s) :
        /\ s[i] = "="
        /\ With(ClassRunEnd(s, i + 1, SPACE_CHARS) + 1, LAMBDA j :
                j + 1 <= Len(s) /\ s[j] \in EQUALS_HINT_CHARS /\ s[j+1] \in EQUALS_HINT_CHARS)

line_zones(s) ==
    With(HasAny(s, TIB_CHARS), LAMBDA has_tib :
    With(HasAny(s, LATIN_CHARS), LAMBDA has_latin :
    With(IF has_tib THEN {"tibetan"} ELSE {}, LAMBDA z1 :
    With(z1 \cup (IF is_bibliography_line(s) THEN {"bibliography"} ELSE {}), LAMBDA z2 :
    With(z2 \cup (IF has_tib /\ translit_tail_after_tibetan(s) # <<>>
                  THEN {"romanization"} ELSE {}), LAMBDA z3 :
    With(z3 \cup (IF SktContext(s) \/ EqualsTranslitHint(s) THEN {"sanskrit"}
                  ELSE IF has_latin /\ "bibliography" \notin z3
                            /\ \E tok \in Words(s) : token_looks_sanskritic(tok)
                       THEN {"sanskrit"}
                  ELSE {}), LAMBDA z4 :
    With(z4 \cup (IF has_latin /\ {"romanization", "sanskrit"} \cap z4 = {}
                  THEN {"german_prose"} ELSE {}), LAMBDA z5 :
        IF s = <<>> THEN {} ELSE z5)))))))

\* the context window half-width of classify_block_context
Window == 2

\* classify_block_context(lines, idx); idx counts from 1 here
classify_block_context(lines, idx) ==
    With(IF idx - Window < 1 THEN 1 ELSE idx - Window, LAMBDA start :
    With(IF idx + Window > Len(lines) THEN Len(lines) ELSE idx + Window, LAMBDA end :
    With(AsSeq([k \in 1..(end - start + 1) |-> line_zones(normalize_text(lines[start + k - 1]))]),
         LAMBDA zs :
    With(IF end - start + 1 < 1 THEN 1 ELSE end - start + 1, LAMBDA span :
        LET counts(z) == Cardinality({i \in DOMAIN zs : z \in zs[i]})
        IN  [tibetan_block |-> counts("tibetan") >= 1,
             romanization_block |-> counts("romanization") >= 1,
             sanskrit_block |-> counts("sanskrit") >= 1,
             bibliography_block |-> \/ counts("bibliography") >= 2
                                    \/ /\ counts("bibliography") >= 1
                                       /\ counts("german_prose") >= 1
                                       /\ counts("tibetan") = 0,
             german_dominant |-> counts("german_prose") >= span \div 2]))))

(***************************************************************************)
(* Token Normalizer                                                        *)
(***************************************************************************)

normalize_translit_token_dieresis(token, sanskrit_context) ==
    IF ~sanskrit_context THEN token
    ELSE IF ~TokenAnyLatin(token) THEN token
    ELSE IF ~HasAny(token, UMLAUT_CHARS) THEN token
    ELSE Translate({<<"a_uml", "a_macron">>, <<"A_uml", "A_macron">>,
                    <<"u_uml", "u_macron">>, <<"U_uml", "U_macron">>}, token)

normalize_sanskrit_token_chars(token, sanskrit_context) ==
    IF ~sanskrit_context THEN token ELSE Translate(SANSKRIT_CEDILLA_MAP, token)

\* the alternatives of TRANSLIT_CLUSTER_RE (matched under re.IGNORECASE)
TRANSLIT_CLUSTERS ==
    {<<"k", "h">>, <<"t", "s", "h">>, <<"t", "s">>, <<"c", "h">>, <<"p", "h">>, <<"t", "h">>,
     <<"d", "h">>, <<"b", "h">>, <<"r", "d", "z">>, <<"d", "z">>, <<"'">>, <<"rsquo">>}

token_has_translit_cues(token) ==
    IF token = <<>> THEN FALSE
    ELSE IF HasAny(token, DIACRITIC_CHARS) THEN TRUE
    ELSE \E c \in TRANSLIT_CLUSTERS : Contains(Lower(token), c)

RECURSIVE LeadFrom(_)
LeadFrom(parts) ==
    IF parts = <<>> THEN <<>>
    ELSE IF IsSpaceStr(Head(parts)) \/ TokenTranslit(Head(parts))
         THEN <<Head(parts)>> \o LeadFrom(Tail(parts))
         ELSE <<>>

translit_lead_tokens(tail) == LeadFrom(SplitWs(tail))

\* the first position at or after i that holds a character of class (Len(s)+1 if none)
ScanTo(s, i, class) ==
    CHOOSE j \in i..(Len(s) + 1) :
        /\ \A k \in i..(j-1) : s[k] \notin class
        /\ (j = Len(s) + 1 \/ s[j] \in class)

\* the range that the first loop of sanskrit_marker_ranges adds for a marker ending before p
SktRange(s, p) ==
    With(ClassRunEnd(s, p, SPACE_CHARS) + 1, LAMBDA i :
    With(ScanTo(s, i, SKT_END_MARKS), LAMBDA j :
        IF i < j THEN {<<i, j - 1>>} ELSE {}))

\* the second loop of sanskrit_marker_ranges, scanning from position i
RECURSIVE EqualsRanges(_, _)
EqualsRanges(s, i) ==
    IF i > Len(s) THEN {}
    ELSE IF s[i] # "=" THEN EqualsRanges(s, i + 1)
    ELSE With(ClassRunEnd(s, i + 1, SPACE_CHARS) + 1, LAMBDA j :
         With(ScanTo(s, j, SPACE_CHARS \cup EQUALS_STOP_CHARS), LAMBDA k :
             IF j > Len(s) THEN {}
             ELSE (IF j < k THEN {<<j, k - 1>>} ELSE {}) \cup EqualsRanges(s, k)))

\* sanskrit_marker_ranges(s): the ranges as <<first, last>> positions.  The final
\* sort-and-merge loop joins overlapping and adjacent ranges and so keeps their union,
\* which is all that in_ranges reads.
sanskrit_marker_ranges(s) ==
    UNION {SktRange(s, SktMatchEnd(s, i)) : i \in {j \in 1..Len(s) : SktMatchEnd(s, j) > 0}}
        \cup EqualsRanges(s, 1)

in_ranges(pos, ranges) == \E r \in ranges : r[1] <= pos /\ pos <= r[2]

\* s with every WORD_RE match w (starting at position p) replaced by F(w, p)
MapWords(s, F(_, _)) ==
    Flat([i \in 1..Len(s) |->
            IF ~InWord(s, i) THEN <<s[i]>>
            ELSE IF WordStart(s, i) THEN F(SubSeq(s, i, WordEnd(s, i)), i)
            ELSE <<>>])

\* PA_APOSTROPHE_RE matches at position i
PaApostropheAt(s, i) ==
    /\ i + 2 <= Len(s)
    /\ s[i] = "p" /\ s[i+1] = "a" /\ s[i+2] \in APOSTROPHE_CHARS
    /\ (i = 1 \/ s[i-1] \notin TRANSLIT_LETTERS)
    /\ (i + 3 > Len(s) \/ s[i+3] \notin TRANSLIT_LETTERS)

\* bool(PA_APOSTROPHE_RE.search(s))
HasPaApostrophe(s) == \E i \in 1..Len(s) : PaApostropheAt(s, i)

\* PA_APOSTROPHE_RE.sub("pa'i", s)
SubPaApostrophe(s) ==
    Flat([i \in 1..Len(s) |->
            IF i >= 3 /\ PaApostropheAt(s, i - 2) THEN <<"'", "i">> ELSE <<s[i]>>])

\* re.search(rf"\b{bad}\b", s) finds bad at position i
WordAt(s, i, bad) == MatchAt(s, i, bad) /\ WordBoundary(s, i) /\ WordBoundary(s, i + Len(bad))

\* re.sub(rf"\b{bad}\b", good, s) for words of equal length
SubWord(s, bad, good) ==
    AsSeq([i \in 1..Len(s) |->
            IF \E st \in (i - Len(bad) + 1)..i : WordAt(s, st, bad)
            THEN good[i + 1 - (CHOOSE st \in (i - Len(bad) + 1)..i : WordAt(s, st, bad))]
            ELSE s[i]])

POST_FIX_WORDS ==
    << <<<<"I", "t", "a">>, <<"l", "t", "a">>>>,
       <<<<"I", "t", "a", "r">>, <<"l", "t", "a", "r">>>>,
       <<<<"I", "h", "a">>, <<"l", "h", "a">>>>,
       <<<<"I", "d", "a", "n">>, <<"l", "d", "a", "n">>>>,
       <<<<"g", "y", "l">>, <<"g", "y", "i">>>> >>

\* the loop "for bad, good in POST_FIX_WORDS: out = re.sub(...)", from the k-th pair on
RECURSIVE SubPostFixWords(_, _)
SubPostFixWords(s, k) ==
    IF k > Len(POST_FIX_WORDS) THEN s
    ELSE SubPostFixWords(SubWord(s, POST_FIX_WORDS[k][1], POST_FIX_WORDS[k][2]), k + 1)

\* any(re.search(rf"\b{bad}\b", s) for bad, _ in POST_FIX_WORDS)
HasPostFixWord(s) ==
    \E k \in 1..Len(POST_FIX_WORDS) : \E i \in 1..Len(s) : WordAt(s, i, POST_FIX_WORDS[k][1])

\* the lookahead (?=(?:\s|$|[,\.;:!\?...])) of the nasal patterns at position p
NasalBoundary(s, p) == AtEnd(s, p) \/ (p <= Len(s) /\ s[p] \in NASAL_BOUNDARY_CHARS)

\* the lookahead (?=[sS](?:\s|$|...)) at position p
BeforeFinalS(s, p) == p <= Len(s) /\ s[p] \in {"s", "S"} /\ NasalBoundary(s, p + 1)

\* RE.sub(r, s) for a pattern that matches the one character at i when At(s, i) holds
SubChar(s, At(_, _), r) == AsSeq([i \in 1..Len(s) |-> IF At(s, i) THEN r ELSE s[i]])

\* RE.sub(r, s) for a pattern that matches the two characters at i, i+1 when At(s, i) holds
SubPair(s, At(_, _), r) ==
    Flat([i \in 1..Len(s) |->
            IF At(s, i) THEN <<r>>
            ELSE IF i > 1 /\ At(s, i - 1) THEN <<>>
            ELSE <<s[i]>>])

\* N_TILDE_GRAVE_PAIR_RE (re.IGNORECASE)
TildeGravePairAt(s, i) ==
    i + 1 <= Len(s) /\ s[i] \in {"n_tilde", "N_tilde"} /\ s[i+1] \in {"u_grave", "U_grave"}

\* N_TILDE_BEFORE_IE_RE
TildeBeforeIEAt(s, i) == s[i] = "n_tilde" /\ i + 1 <= Len(s) /\ s[i+1] \in TILDE_IE_CHARS

\* N_TILDE_ACUTE_N_BEFORE_S_FINAL_RE
TildeAcuteBeforeFinalSAt(s, i) ==
    i + 1 <= Len(s) /\ s[i] = "n_tilde" /\ s[i+1] = "n_acute" /\ BeforeFinalS(s, i + 2)

\* N_TILDE_BEFORE_S_FINAL_RE
TildeBeforeFinalSAt(s, i) == s[i] = "n_tilde" /\ BeforeFinalS(s, i + 1)

\* N_TILDE_SYL_FINAL_RE
TildeSylFinalAt(s, i) == s[i] = "n_tilde" /\ NasalBoundary(s, i + 1)

\* N_ACUTE_N_BEFORE_S_FINAL_RE
AcuteBeforeFinalSAt(s, i) == s[i] = "n_acute" /\ BeforeFinalS(s, i + 1)

\* N_ACUTE_N_SYL_FINAL_RE
AcuteSylFinalAt(s, i) == s[i] = "n_acute" /\ NasalBoundary(s, i + 1)

\* the character-level part of normalize_romanization_segment (its lines up to the token loop)
RomanizationChars(s) ==
    With(Translate({<<"$", "s_acute">>}, s), LAMBDA o1 :
    With(SubPaApostrophe(o1), LAMBDA o2 :
    With(SubPair(o2, TildeGravePairAt, "n_dot"), LAMBDA o3 :
    With(SubPostFixWords(o3, 1), LAMBDA o4 :
    With(SubChar(o4, TildeBeforeIEAt, "PUA_E000"), LAMBDA o5 :
    With(SubPair(o5, TildeAcuteBeforeFinalSAt, "n_dot"), LAMBDA o6 :
    With(SubChar(o6, TildeBeforeFinalSAt, "n_dot"), LAMBDA o7 :
    With(SubChar(o7, TildeSylFinalAt, "n_dot"), LAMBDA o8 :
    With(SubChar(o8, AcuteBeforeFinalSAt, "n_dot"), LAMBDA o9 :
    With(SubChar(o9, AcuteSylFinalAt, "n_dot"), LAMBDA o10 :
        Translate({<<"PUA_E000", "n_tilde">>}, o10)))))))))))

\* the decision use_skt of the token loop of normalize_romanization_segment
RomanUseSkt(tok, sanskrit_context) ==
    sanskrit_context \/ token_has_translit_cues(tok) \/ token_looks_sanskritic(tok)

normalize_romanization_segment(s, sanskrit_context) ==
    MapWords(RomanizationChars(s),
             LAMBDA tok, p :
                 normalize_sanskrit_token_chars(
                     normalize_translit_token_dieresis(tok, RomanUseSkt(tok, sanskrit_context)),
                     RomanUseSkt(tok, sanskrit_context)))

\* the decision use_skt of normalize_latin_spans for the token tok that starts at position p
LatinUseSkt(tok, p, ranges, ctx) ==
    \/ in_ranges(p, ranges)
    \/ /\ token_looks_sanskritic(tok)
       /\ (ctx.sanskrit_block \/ ~ctx.bibliography_block)

normalize_latin_spans(s, ctx) ==
    With(sanskrit_marker_ranges(s), LAMBDA ranges :
        MapWords(s, LAMBDA tok, p :
                        IF LatinUseSkt(tok, p, ranges, ctx)
                        THEN normalize_sanskrit_token_chars(
                                 normalize_translit_token_dieresis(tok, TRUE), TRUE)
                        ELSE tok))

\* split_line_spans(s): a sequence of <<zone, text>>
split_line_spans(s) ==
    With(split_tibetan_prefix_tail(s), LAMBDA pt :
    With(pt[1], LAMBDA prefix :
    With(pt[2], LAMBDA tail :
    With(Len(Flat(translit_lead_tokens(tail))), LAMBDA lead_consumed :
    With(SubSeq(tail, 1, lead_consumed), LAMBDA roman :
    With(From(tail, lead_consumed + 1), LAMBDA rest :
        IF prefix = <<>> THEN << <<"latin", s>> >>
        ELSE IF tail = <<>> THEN << <<"tibetan_script", prefix>> >>
        ELSE IF lead_consumed <= 0 THEN << <<"tibetan_script", prefix>>, <<"latin", tail>> >>
        ELSE << <<"tibetan_script", prefix>>, <<"romanization", roman>> >>
             \o (IF rest # <<>> THEN << <<"latin", rest>> >> ELSE <<>>)))))))

\* REPEATED_DIGIT_RE.search(tok)
HasRepeatedDigit(tok) ==
    \E i \in 1..(Len(tok) - 2) :
        tok[i] \in DIGIT_CHARS /\ tok[i+1] = tok[i] /\ tok[i+2] = tok[i]

is_roman_noise_token(tok) ==
    With(Len(tok), LAMBDA char_count :
    With(Count(tok, TRANSLIT_CHAR_CHARS), LAMBDA letter_count :
        IF tok = <<>> THEN FALSE
        ELSE IF TokenTranslit(tok) THEN FALSE
        \* non_letter_ratio > 0.40
        ELSE IF char_count >= 3 /\ 5 * (char_count - letter_count) > 2 * char_count THEN TRUE
        \* ROMAN_NOISE_TOKEN_RE
        ELSE IF char_count >= 2 /\ \A i \in 1..char_count : tok[i] \in ROMAN_NOISE_TOKEN_CHARS
             THEN TRUE
        ELSE IF HasRepeatedDigit(tok) THEN TRUE
        \* ROMAN_NOISE_DIGSYM_RE
        ELSE IF HasAny(tok, DIGIT_CHARS) /\ HasAny(tok, Alphabet \ DIGSYM_PLAIN_CHARS)
                  /\ ~HasAny(tok, SPACE_CHARS)
             THEN TRUE
        ELSE SUSPECT_SYMBOL_CHARS \cap {tok[i] : i \in 1..Len(tok)} # {} /\ ~HasAny(tok, LATIN_CHARS)))

\* the loop of drop_roman_tail_noise_after_tibetan over the remaining parts: out_parts
RECURSIVE DropNoiseParts(_)
DropNoiseParts(parts) ==
    IF parts = <<>> THEN <<>>
    ELSE IF IsSpaceStr(Head(parts)) \/ TokenTranslit(Head(parts))
         THEN <<Head(parts)>> \o DropNoiseParts(Tail(parts))
    ELSE IF is_roman_noise_token(Head(parts)) THEN DropNoiseParts(Tail(parts))
    ELSE parts

drop_roman_tail_noise_after_tibetan(line) ==
    With(split_tibetan_prefix_tail(line), LAMBDA pt :
    With(pt[1], LAMBDA prefix :
    With(pt[2], LAMBDA tail :
    With(DropNoiseParts(SplitWs(tail)), LAMBDA out_parts :
    With(IF out_parts = <<>> THEN tail ELSE Strip(Flat(out_parts)), LAMBDA out_tail :
    With(IF prefix[Len(prefix)] = " " \/ out_tail = <<>> THEN <<>> ELSE <<" ">>, LAMBDA joiner :
        IF prefix = <<>> \/ tail = <<>> THEN line
        ELSE RStrip(prefix \o joiner \o out_tail)))))))

\* TIB_SYLLABLE_SPLIT_RE.split(prefix) without the empty strings
RECURSIVE SyllablesFrom(_, _)
SyllablesFrom(s, i) ==
    IF i > Len(s) THEN <<>>
    ELSE IF s[i] \in TIB_STRIP_CHARS THEN SyllablesFrom(s, i + 1)
    ELSE With(ScanTo(s, i, TIB_STRIP_CHARS), LAMBDA j :
             <<SubSeq(s, i, j - 1)>> \o SyllablesFrom(s, j))

tibetan_syllables(prefix) == SyllablesFrom(prefix, 1)

\* re.sub(r"n(?=s?$)", n_dot, tok) followed by re.sub(r"ng(?=s?$)", n_dot, .)
FinalNToDot(tok) ==
    LET TailIsOptS(s, p) == AtEnd(s, p) \/ (p <= Len(s) /\ s[p] = "s" /\ AtEnd(s, p + 1))
        NAt(s, i) == s[i] = "n" /\ TailIsOptS(s, i + 1)
        NgAt(s, i) == i + 1 <= Len(s) /\ s[i] = "n" /\ s[i+1] = "g" /\ TailIsOptS(s, i + 2)
    IN  SubPair(SubChar(tok, NAt, "n_dot"), NgAt, "n_dot")

\* the token loop of enforce_ng_from_tibetan_prefix: parts are the pieces of the lead that
\* are left, roman_idx counts the tokens seen (from 1)
RECURSIVE EnforceParts(_, _, _)
EnforceParts(parts, roman_idx, syls) ==
    IF parts = <<>> THEN <<>>
    ELSE IF IsSpaceStr(Head(parts)) THEN Head(parts) \o EnforceParts(Tail(parts), roman_idx, syls)
    ELSE (IF roman_idx <= Len(syls) /\ HasAny(syls[roman_idx], {"TIB_NGA"})
          THEN FinalNToDot(Head(parts)) ELSE Head(parts))
         \o EnforceParts(Tail(parts), roman_idx + 1, syls)

enforce_ng_from_tibetan_prefix(line) ==
    With(split_tibetan_prefix_tail(line), LAMBDA pt :
    With(pt[1], LAMBDA prefix :
    With(pt[2], LAMBDA tail :
    With(tibetan_syllables(prefix), LAMBDA syls :
    With(Len(Flat(translit_lead_tokens(tail))), LAMBDA lead_consumed :
    With(SubSeq(tail, 1, lead_consumed), LAMBDA lead_text :
    With(EnforceParts(SplitWs(lead_text), 1, syls), LAMBDA fixed_lead :
    With(fixed_lead \o From(tail, lead_consumed + 1), LAMBDA fixed_tail :
        IF prefix = <<>> \/ tail = <<>> THEN line
        ELSE IF syls = <<>> THEN line
        ELSE IF lead_consumed <= 0 THEN line
        ELSE SubSeq(line, 1, Len(line) - Len(tail)) \o fixed_tail))))))))

\* the test has_explicit_confusable of post_cleanup_contextual
has_explicit_confusable(out) ==
    HasAny(out, {"$"}) \/ HasPaApostrophe(out) \/ HasPostFixWord(out)

\* the loop of post_cleanup_contextual over the spans
RECURSIVE RebuildSpans(_, _)
RebuildSpans(spans, ctx) ==
    IF spans = <<>> THEN <<>>
    ELSE With(Head(spans)[1], LAMBDA zone :
         With(Head(spans)[2], LAMBDA text :
             (IF zone = "tibetan_script" THEN text
              ELSE IF zone = "romanization"
                   THEN normalize_romanization_segment(text, ctx.sanskrit_block)
              ELSE normalize_latin_spans(text, ctx))
             \o RebuildSpans(Tail(spans), ctx)))

\* post_cleanup_contextual(lines, idx, s); idx counts from 1 here
post_cleanup_contextual(lines, idx, s) ==
    With(normalize_text(s), LAMBDA out0 :
    With(classify_block_context(lines, idx), LAMBDA ctx :
    With(DropChars(out0, STRAY_SYMBOL_CHARS), LAMBDA out1 :
    With(RebuildSpans(split_line_spans(out1), ctx), LAMBDA out2 :
    With(IF split_tibetan_prefix_tail(out2)[1] # <<>>
                THEN enforce_ng_from_tibetan_prefix(drop_roman_tail_noise_after_tibetan(out2))
                ELSE out2, LAMBDA out3 :
        IF ~(HasAny(out0, LATIN_CHARS) \/ has_explicit_confusable(out0)) THEN out0
        ELSE normalize_text(out3))))))

(***************************************************************************)
(* Candidate Selector and Replacement Arbiter                              *)
(***************************************************************************)

\* the length of the common run of a from i and b from j, inside a[..ahi] and b[..bhi]
RECURSIVE CommonRun(_, _, _, _, _, _)
CommonRun(a, b, i, j, ahi, bhi) ==
    IF i > ahi \/ j > bhi \/ a[i] # b[j] THEN 0
    ELSE 1 + CommonRun(a, b, i + 1, j + 1, ahi, bhi)

\* difflib.SequenceMatcher.find_longest_match(alo, ahi, blo, bhi) without junk: the longest
\* block, of those the one that starts earliest in a, of those the one earliest in b;
\* <<i, j, k>> with k = 0 if nothing matches
find_longest_match(a, b, alo, ahi, blo, bhi) ==
    With({p \in (alo..ahi) \X (blo..bhi) : a[p[1]] = b[p[2]]}, LAMBDA starts :
    With({<<p[1], p[2], CommonRun(a, b, p[1], p[2], ahi, bhi)>> : p \in starts}, LAMBDA blocks :
        IF blocks = {} THEN <<alo, blo, 0>>
        ELSE CHOOSE x \in blocks :
                \A y \in blocks :
                    \/ x[3] > y[3]
                    \/ x[3] = y[3] /\ x[1] < y[1]
                    \/ x[3] = y[3] /\ x[1] = y[1] /\ x[2] <= y[2]))

\* the sum of the sizes of difflib.SequenceMatcher.get_matching_blocks()
RECURSIVE MatchCount(_, _, _, _, _, _)
MatchCount(a, b, alo, ahi, blo, bhi) ==
    IF alo > ahi \/ blo > bhi THEN 0
    ELSE With(find_longest_match(a, b, alo, ahi, blo, bhi), LAMBDA x :
             IF x[3] = 0 THEN 0
             ELSE x[3] + MatchCount(a, b, alo, x[1] - 1, blo, x[2] - 1)
                       + MatchCount(a, b, x[1] + x[3], ahi, x[2] + x[3], bhi))

\* difflib.SequenceMatcher(None, a, b).ratio() as the fraction <<numerator, denominator>>
SequenceMatcherRatio(a, b) ==
    IF Len(a) + Len(b) = 0 THEN <<1, 1>>
    ELSE <<2 * MatchCount(a, b, 1, Len(a), 1, Len(b)), Len(a) + Len(b)>>

\* "SequenceMatcher(None, a, b).ratio() if a and b else 0.0"
Similarity(a, b) == IF a # <<>> /\ b # <<>> THEN SequenceMatcherRatio(a, b) ELSE <<0, 1>>

\* comparisons of a fraction with a threshold given in hundredths, and of two fractions
FracLt(x, pct) == x[1] * 100 < pct * x[2]
FracGe(x, pct) == ~FracLt(x, pct)
FracGt(x, y) == x[1] * y[2] > y[1] * x[2]

\* OCR_CONFUSABLE_I_RE matches at position i
ConfusableIAt(s, i) ==
    s[i] = "I" /\ WordBoundary(s, i) /\ i + 1 <= Len(s) /\ s[i+1] \in TRANSLIT_LETTERS

normalize_ocr_confusables(s) ==
    SubPaApostrophe(SubChar(Translate({<<"$", "s_acute">>}, s), ConfusableIAt, "l"))

\* len(OCR_SUSPECT_RE.findall(s))
OcrSuspectCount(s) == Cardinality({i \in 1..Len(s) : s[i] = "$" \/ ConfusableIAt(s, i)})

\* PUNCT_STRIP_RE.sub(" ", s) puts one space for every run of punctuation; a space for
\* every punctuation character gives the same text once normalize_text has collapsed it
base_equivalent_for_merge(s) ==
    With(Translate(DIACRITIC_BASE_TABLE, normalize_ocr_confusables(s)), LAMBDA out :
    With(AsSeq([i \in 1..Len(out) |-> IF out[i] \in PUNCT_STRIP_CHARS THEN " " ELSE out[i]]), LAMBDA spaced :
        Lower(normalize_text(spaced))))

tibetan_anchor_for_merge(s) ==
    DropChars(SelectSeq(s, LAMBDA c : c \in TIB_CHARS), TIB_STRIP_CHARS)

\* the quality of the romanization tail left out of the key
roman_tail_quality_unscored(s) == <<0, 0, 0>>

\* roman_tail_quality_score(s): <<letters, -suspects, diacritics>>
roman_tail_quality_score(s) ==
    With(translit_tail_after_tibetan(s), LAMBDA tail :
        IF tail = <<>> THEN <<0, 0, 0>>
        ELSE <<Count(tail, TRANSLIT_LETTERS), 0 - Count(tail, ROMAN_TAIL_SUSPECT_CHARS),
               Count(tail, DIACRITIC_CHARS)>>)

roman_tail_noise_score(s) ==
    With(translit_tail_after_tibetan(s), LAMBDA tail :
        IF tail = <<>> THEN 0 ELSE Count(tail, TAIL_NOISE_CHARS))

\* Python's tuple comparison x > y for tuples of integers of equal length
RECURSIVE TupleGt(_, _)
TupleGt(x, y) ==
    IF x = <<>> THEN FALSE
    ELSE IF Head(x) # Head(y) THEN Head(x) > Head(y)
    ELSE TupleGt(Tail(x), Tail(y))

\* the value "False, reason, 0.0, 0, 0" and its kin: the 5-tuple of should_replace
Decision(use, reason, sim, a_d, b_d) ==
    [use_b |-> use, reason |-> reason, similarity |-> sim, a_d |-> a_d, b_d |-> b_d]

\* the lower bound of the length ratio written as 0.05 for 0.5
RatioBelowReplaceMinMisplaced(lb, la) == 20 * lb < la

\* the upper bound of the length ratio written as 8.1 for 1.8
RatioAboveMaxMisplaced(lb, la) == 10 * lb > 81 * la

\* the lower bound of the length ratio len(b) / len(a) in should_replace: ratio < 0.5
RatioBelowReplaceMin(lb, la) == 2 * lb < la

\* the upper bound of the length ratio in should_replace and in the splice: ratio > 1.8
RatioAboveMax(lb, la) == 5 * lb > 9 * la

\* the lower bound of the tail length ratio in the splice: ratio < 0.55
RatioBelowSpliceMin(lb, la) == 20 * lb < 11 * la

\* the similarity floor of the confusable-gain rule, in hundredths (0.92)
ConfusableGainMin == 92

\* the branch "if b_d > a_d" of should_replace
ReplaceOnDiacriticGain(a, b, similarity, a_d, b_d, min_similarity, min_similarity_diacritic_only, min_similarity_tibetan_anchor) ==
    With(/\ tibetan_anchor_for_merge(a) # <<>>
                     /\ tibetan_anchor_for_merge(a) = tibetan_anchor_for_merge(b), LAMBDA anchor_ok :
        IF FracLt(similarity, min_similarity)
        THEN IF FracLt(similarity, min_similarity_diacritic_only)
             THEN IF FracLt(similarity, min_similarity_tibetan_anchor)
                  THEN Decision(FALSE, "similarity_too_low", similarity, a_d, b_d)
                  ELSE IF anchor_ok
                       THEN Decision(TRUE, "replace_tibetan_anchor", similarity, a_d, b_d)
                       ELSE Decision(FALSE, "similarity_too_low", similarity, a_d, b_d)
             ELSE IF base_equivalent_for_merge(a) = base_equivalent_for_merge(b)
                  THEN Decision(TRUE, "replace_diacritic_only", similarity, a_d, b_d)
             ELSE IF anchor_ok
                  THEN Decision(TRUE, "replace_tibetan_anchor", similarity, a_d, b_d)
             ELSE Decision(FALSE, "similarity_too_low", similarity, a_d, b_d)
        ELSE Decision(TRUE, "replace", similarity, a_d, b_d))

\* the test of the rule replace_confusable_gain
ConfusableGain(a, b, similarity, min_similarity) ==
    /\ FracGe(similarity, IF min_similarity > ConfusableGainMin THEN min_similarity
                          ELSE ConfusableGainMin)
    /\ OcrSuspectCount(a) > OcrSuspectCount(b)
    /\ normalize_ocr_confusables(a) = normalize_ocr_confusables(b)

\* the test of the rule replace_headword_tail_cleanup
HeadwordTailCleanup(a, b, similarity, min_similarity_tibetan_anchor) ==
    With(tibetan_anchor_for_merge(a), LAMBDA a_anchor :
    With(tibetan_anchor_for_merge(b), LAMBDA b_anchor :
    With(roman_tail_quality_score(a), LAMBDA a_q :
    With(roman_tail_quality_score(b), LAMBDA b_q :
    With(roman_tail_noise_score(a), LAMBDA a_noise :
    With(roman_tail_noise_score(b), LAMBDA b_noise :
        /\ a_anchor # <<>> /\ b_anchor # <<>> /\ a_anchor = b_anchor
        /\ FracGe(similarity, min_similarity_tibetan_anchor)
        /\ TupleGt(b_q, a_q)
        /\ \/ b_q[2] - a_q[2] >= 1
           \/ b_q[3] > a_q[3]
           \/ /\ a_noise >= 2
              /\ b_noise < a_noise
              /\ b_q[1] - a_q[1] >= 2
              /\ b_q[2] >= a_q[2]))))))

\* the branch "if b_d <= a_d" of should_replace
ReplaceWithoutGain(a, b, similarity, a_d, b_d, min_similarity_diacritic_only, min_similarity_tibetan_anchor) ==
    IF HeadwordTailCleanup(a, b, similarity, min_similarity_tibetan_anchor)
    THEN Decision(TRUE, "replace_headword_tail_cleanup", similarity, a_d, b_d)
    ELSE IF /\ FracGe(similarity, min_similarity_diacritic_only)
            /\ base_equivalent_for_merge(a) = base_equivalent_for_merge(b)
            /\ (HasAny(a, DIACRITIC_CHARS) \/ HasAny(b, DIACRITIC_CHARS))
         THEN Decision(TRUE, "replace_diacritic_only", similarity, a_d, b_d)
    ELSE Decision(FALSE, "no_diacritic_gain", similarity, a_d, b_d)

\* the diacritic-gain branch taken whatever the two counts are
DiacriticGainUnchecked(a_d, b_d) == TRUE

\* the guard "if b_d > a_d" of should_replace
DiacriticGain(a_d, b_d) == b_d > a_d

\* should_replace without its guard against Devanagari
UnexpectedDevanagariUnchecked(b) == FALSE

\* the guard "DEV_RE.search(b)" of should_replace
UnexpectedDevanagari(b) == HasAny(b, DEV_CHARS)

\* should_replace without its script guard: a secondary without Tibetan script passes
LostTibetanScriptUnchecked(a, b) == FALSE

\* the guard "TIB_RE.search(a) and not TIB_RE.search(b)" of should_replace
LostTibetanScript(a, b) == HasAny(a, TIB_CHARS) /\ ~HasAny(b, TIB_CHARS)

should_replace(a_text, b_text, min_similarity, min_similarity_diacritic_only, min_similarity_tibetan_anchor) ==
    With(normalize_text(a_text), LAMBDA a :
    With(normalize_text(b_text), LAMBDA b :
    With(Count(a, DIACRITIC_CHARS), LAMBDA a_d :
    With(Count(b, DIACRITIC_CHARS), LAMBDA b_d :
    With(Similarity(a, b), LAMBDA similarity :
        IF b = <<>> THEN Decision(FALSE, "empty_b", <<0, 1>>, 0, 0)
        ELSE IF UnexpectedDevanagari(b) THEN Decision(FALSE, "unexpected_devanagari", <<0, 1>>, 0, 0)
        ELSE IF LostTibetanScript(a, b)
             THEN Decision(FALSE, "lost_tibetan_script", <<0, 1>>, 0, 0)
        ELSE IF a # <<>> /\ (RatioBelowReplaceMin(Len(b), Len(a)) \/ RatioAboveMax(Len(b), Len(a)))
             THEN Decision(FALSE, "length_ratio_out_of_range", <<0, 1>>, a_d, b_d)
        ELSE IF DiacriticGain(a_d, b_d)
             THEN ReplaceOnDiacriticGain(a, b, similarity, a_d, b_d, min_similarity,
                      min_similarity_diacritic_only, min_similarity_tibetan_anchor)
        ELSE IF ConfusableGain(a, b, similarity, min_similarity)
             THEN Decision(TRUE, "replace_confusable_gain", similarity, a_d, b_d)
        ELSE ReplaceWithoutGain(a, b, similarity, a_d, b_d, min_similarity_diacritic_only,
                                min_similarity_tibetan_anchor))))))

\* the splice with its guard on the quality of the tail left out
TailImprovesUnchecked(a_sus, b_sus, a_d, b_d) == TRUE

\* the guard of the splice on the quality of the tail: fewer suspect symbols or more
\* diacritic characters in the secondary tail
TailImproves(a_sus, b_sus, a_d, b_d) == a_sus > b_sus \/ b_d > a_d

\* maybe_splice_tibetan_prefix_with_b_tail; the empty text stands for "no splice"
maybe_splice_tibetan_prefix_with_b_tail(a_text, b_text, min_similarity_tibetan_anchor) ==
    With(split_tibetan_prefix_tail(a_text), LAMBDA pt :
    With(pt[1], LAMBDA prefix :
    With(pt[2], LAMBDA a_tail :
    With(normalize_text(b_text), LAMBDA b_tail :
    With(SequenceMatcherRatio(base_equivalent_for_merge(a_tail),
                                    base_equivalent_for_merge(b_tail)), LAMBDA sim :
    With(Count(a_tail, ROMAN_TAIL_SUSPECT_CHARS), LAMBDA a_sus :
    With(Count(b_tail, ROMAN_TAIL_SUSPECT_CHARS), LAMBDA b_sus :
    With(Count(a_tail, DIACRITIC_CHARS), LAMBDA a_d :
    With(Count(b_tail, DIACRITIC_CHARS), LAMBDA b_d :
    With(IF prefix[Len(prefix)] = " " \/ b_tail = <<>> THEN <<>> ELSE <<" ">>, LAMBDA joiner :
        IF a_text = <<>> \/ b_text = <<>> THEN <<>>
        ELSE IF HasAny(b_text, TIB_CHARS) THEN <<>>
        ELSE IF prefix = <<>> \/ a_tail = <<>> THEN <<>>
        ELSE IF b_tail = <<>> \/ ~HasAny(b_tail, LATIN_CHARS) THEN <<>>
        ELSE IF RatioBelowSpliceMin(Len(b_tail), Len(a_tail)) \/ RatioAboveMax(Len(b_tail), Len(a_tail))
             THEN <<>>
        ELSE IF FracLt(sim, min_similarity_tibetan_anchor) THEN <<>>
        ELSE IF ~TailImproves(a_sus, b_sus, a_d, b_d) THEN <<>>
        ELSE RStrip(prefix \o joiner \o b_tail)))))))))))

\* the clusters of TRANSLIT_HINT_RE
TRANSLIT_HINT_CLUSTERS ==
    {<<"k", "h">>, <<"t", "s", "h">>, <<"t", "s">>, <<"c", "h">>, <<"p", "h">>, <<"t", "h">>,
     <<"d", "h">>, <<"b", "h">>, <<"r", "d", "z">>, <<"d", "z">>}

\* TRANSLIT_HINT_RE.search(text); under re.IGNORECASE the class [a-z] takes the dotless i too
TranslitHint(text) ==
    With(LATIN_CHARS \cup {"dotless_i"}, LAMBDA letters :
        \/ \E i \in 1..Len(text) :
              /\ WordBoundary(text, i)
              /\ (MatchAtI(text, i, <<"s", "k", "t">>) \/ MatchAtI(text, i, <<"s", "k", "r">>))
        \/ HasAny(text, DIACRITIC_CHARS)
        \/ \E c \in TRANSLIT_HINT_CLUSTERS : Contains(Lower(text), c)
        \/ \E i \in 1..(Len(text) - 2) :
              text[i] \in letters /\ text[i+1] = "'" /\ text[i+2] \in letters)

line_is_candidate(text) ==
    IF ~HasAny(text, LATIN_CHARS) THEN FALSE
    ELSE IF HasAny(text, TIB_CHARS) THEN TRUE
    ELSE IF HasAny(text, DIACRITIC_CHARS) THEN TRUE
    ELSE TranslitHint(text)

\* the candidate test of the per-line loop of main under --candidate-mode
IsCandidate(candidate_mode, text) ==
    IF candidate_mode = "heuristic" THEN line_is_candidate(text) ELSE HasAny(text, LATIN_CHARS)

clamp(v, lo, hi) ==
    With(IF hi < v THEN hi ELSE v, LAMBDA m :
        IF lo > m THEN lo ELSE m)

\* crop_image(src, dst, bbox, pad) on an image of the given size: TRUE when the crop is
\* saved, FALSE when it raises RuntimeError("Invalid crop box")
crop_image(size, bbox, pad) ==
    With(clamp(bbox[1] - pad, 0, size[1]), LAMBDA cx0 :
    With(clamp(bbox[2] - pad, 0, size[2]), LAMBDA cy0 :
    With(clamp(bbox[3] + pad, 0, size[1]), LAMBDA cx1 :
    With(clamp(bbox[4] + pad, 0, size[2]), LAMBDA cy1 :
        ~(cx1 <= cx0 \/ cy1 <= cy0)))))

\* run_tesseract_stdout_txt without its "except subprocess.TimeoutExpired"
run_tesseract_uncaught_timeout(proc) ==
    IF proc.kind = "timeout" THEN [raised |-> TRUE, text |-> <<>>]
    ELSE IF proc.returncode # 0 THEN [raised |-> FALSE, text |-> <<>>]
    ELSE [raised |-> FALSE, text |-> Strip(DropChars(proc.stdout, {"FF"}))]

\* run_tesseract_stdout_txt on what the subprocess did: proc.kind is "timeout" when
\* subprocess.run raised TimeoutExpired, else "exit" with returncode and stdout;
\* the result is the returned text, or raised = TRUE if an exception leaves the function
run_tesseract_stdout_txt(proc) ==
    IF proc.kind = "timeout" THEN [raised |-> FALSE, text |-> <<>>]
    ELSE IF proc.returncode # 0 THEN [raised |-> FALSE, text |-> <<>>]
    ELSE [raised |-> FALSE, text |-> Strip(DropChars(proc.stdout, {"FF"}))]

\* the selector with every candidate taken as script-safe
ScriptOkUnchecked(a_has_tib, b_norm) == 1

\* script_ok of choose_best_b_text: 1 when the candidate holds no Devanagari and holds
\* Tibetan script where the primary does
ScriptOk(a_has_tib, b_norm) ==
    IF ~HasAny(b_norm, DEV_CHARS) /\ (~a_has_tib \/ HasAny(b_norm, TIB_CHARS)) THEN 1 ELSE 0

\* the key of choose_best_b_text for one candidate; len_closeness = -|len(b)/len(a) - 1|
\* is kept as the fraction <<-|len(b) - len(a)|, len(a)>>, and <<-1, 1>> when a is empty
SelectorKey(a_norm, bt) ==
    With(normalize_text(bt), LAMBDA b_norm :
    With(HasAny(a_norm, TIB_CHARS), LAMBDA a_has_tib :
    With(ScriptOk(a_has_tib, b_norm), LAMBDA script_ok :
    With(roman_tail_quality_score(b_norm), LAMBDA q :
    With(Len(b_norm) - Len(a_norm), LAMBDA diff :
    With(IF a_norm # <<>> THEN <<IF diff < 0 THEN diff ELSE 0 - diff, Len(a_norm)>>
                         ELSE <<0 - 1, 1>>, LAMBDA len_closeness :
        [script_ok |-> script_ok,
         tail |-> IF a_has_tib THEN q ELSE <<0 - 1, 0 - 9999, 0 - 1>>,
         b_d |-> Count(b_norm, DIACRITIC_CHARS),
         sim |-> Similarity(a_norm, b_norm),
         len_closeness |-> len_closeness,
         len |-> Len(b_norm)]))))))

\* Python's tuple comparison x > y of two keys of choose_best_b_text
KeyGt(x, y) ==
    IF x.script_ok # y.script_ok THEN x.script_ok > y.script_ok
    ELSE IF x.tail # y.tail THEN TupleGt(x.tail, y.tail)
    ELSE IF x.b_d # y.b_d THEN x.b_d > y.b_d
    ELSE IF FracGt(x.sim, y.sim) \/ FracGt(y.sim, x.sim) THEN FracGt(x.sim, y.sim)
    ELSE IF FracGt(x.len_closeness, y.len_closeness) \/ FracGt(y.len_closeness, x.len_closeness)
         THEN FracGt(x.len_closeness, y.len_closeness)
    ELSE x.len > y.len

\* the key best_key starts from
InitialBestKey ==
    [script_ok |-> 0 - 1, tail |-> <<0 - 1, 0 - 9999, 0 - 1>>, b_d |-> 0 - 1, sim |-> <<0 - 1, 1>>,
     len_closeness |-> <<0 - 10, 1>>, len |-> 0 - 1]

\* the loop of choose_best_b_text over the candidates that are left
RECURSIVE ChooseFrom(_, _, _, _)
ChooseFrom(a_norm, cands, best, best_key) ==
    IF cands = <<>> THEN best
    ELSE With(SelectorKey(a_norm, Head(cands)[2]), LAMBDA key :
             IF KeyGt(key, best_key)
             THEN ChooseFrom(a_norm, Tail(cands), Head(cands), key)
             ELSE ChooseFrom(a_norm, Tail(cands), best, best_key))

\* choose_best_b_text(a_text, b_candidates): <<best_source, best>>
choose_best_b_text(a_text, b_candidates) ==
    ChooseFrom(normalize_text(a_text), b_candidates, << <<>>, <<>> >>, InitialBestKey)

(***************************************************************************)
(* apply_approved_rewrites.py: load_rewrites and apply_text                *)
(***************************************************************************)

\* LATIN_TOKEN_RE letter class
LATIN_TOKEN_CHARS ==
    {"a", "b", "c", "d", "e", "f", "g", "h", "i", "j", "k", "l", "m", "n", "o", "p", "q", "r",
     "s", "t", "u", "v", "w", "x", "y", "z", "A", "B", "C", "D", "E", "F", "G", "H", "I", "J",
     "K", "L", "M", "N", "O", "P", "Q", "R", "S", "T", "U", "V", "W", "X", "Y", "Z", "a_macron",
     "A_macron", "i_macron", "I_macron", "u_macron", "U_macron", "r_underdot", "R_underdot",
     "rr_underdot", "RR_underdot", "l_underdot", "L_underdot", "ll_underdot", "LL_underdot",
     "n_dot", "N_dot", "n_tilde", "N_tilde", "t_underdot", "T_underdot", "d_underdot",
     "D_underdot", "n_underdot", "N_underdot", "s_acute", "S_acute", "s_underdot", "S_underdot",
     "h_underdot", "H_underdot", "m_underdot", "M_underdot", "m_dot", "M_dot", "z_acute",
     "Z_acute", "a_uml", "A_uml", "o_uml", "O_uml", "u_uml", "U_uml", "s_cedilla", "S_cedilla",
     "n_cedilla", "N_cedilla", "a_tilde", "A_tilde", "dotless_i"}

\* NEXT_SYLLABLE_SKIP: the class of the characters passed over
NEXT_SYLLABLE_SKIP_CHARS ==
    {" ", ",", ".", ";", ":", "-", "/", "(", ")", "!", "?", "~", "[", "]", "{", "}", "dq", "NL",
     "FF", "TAB", "ldquo", "rdquo", "endash"}

\* the dict lookup rewrites.get(tok); the empty text stands for None
Get(rw, tok) == IF \E p \in rw : p[1] = tok THEN (CHOOSE p \in rw : p[1] = tok)[2] ELSE <<>>

\* the loop of load_rewrites over the rows, which overwrites a mapping it holds
\* where load_rewrites records a conflict
RECURSIVE LoadRowsLastWins(_, _)
LoadRowsLastWins(rows, rw) ==
    IF rows = <<>> THEN [rewrites |-> rw, conflicts |-> <<>>]
    ELSE With(Strip(Head(rows).from_token), LAMBDA src :
         With(Strip(Head(rows).to_token), LAMBDA dst :
             IF src = <<>> \/ dst = <<>> \/ src = dst THEN LoadRowsLastWins(Tail(rows), rw)
             ELSE LoadRowsLastWins(Tail(rows), {p \in rw : p[1] # src} \cup {<<src, dst>>})))

\* the loop of load_rewrites over the rows of the table; a row is a record of its
\* cells from_token and to_token, the dict rewrites a set of pairs
RECURSIVE LoadRows(_, _, _)
LoadRows(rows, rw, cf) ==
    IF rows = <<>> THEN [rewrites |-> rw, conflicts |-> cf]
    ELSE With(Strip(Head(rows).from_token), LAMBDA src :
         With(Strip(Head(rows).to_token), LAMBDA dst :
         With(Get(rw, src), LAMBDA prev :
             IF src = <<>> \/ dst = <<>> \/ src = dst THEN LoadRows(Tail(rows), rw, cf)
             ELSE IF prev # <<>> /\ prev # dst
                  THEN LoadRows(Tail(rows), rw, Append(cf, <<src, prev, dst>>))
             ELSE LoadRows(Tail(rows), rw \cup {<<src, dst>>}, cf))))

\* load_rewrites where a later row replaces the mapping of an earlier one
load_rewrites_last_wins(rows) == LoadRowsLastWins(rows, {})

\* load_rewrites on the rows of a table that has the two required columns
load_rewrites(rows) == LoadRows(rows, {}, <<>>)

\* position k lies inside a LATIN_TOKEN_RE match: a letter, or a hyphen between letters
InLatinToken(s, k) ==
    \/ s[k] \in LATIN_TOKEN_CHARS
    \/ s[k] = "-" /\ k > 1 /\ k < Len(s) /\ s[k-1] \in LATIN_TOKEN_CHARS
                  /\ s[k+1] \in LATIN_TOKEN_CHARS

\* the last position of the LATIN_TOKEN_RE match that starts at i
LatinTokenEnd(s, i) ==
    CHOOSE j \in i..Len(s) :
        /\ \A k \in i..j : InLatinToken(s, k)
        /\ (j = Len(s) \/ ~InLatinToken(s, j + 1))

\* get_line_bounds: the line of full around the token at positions i..e
LineAround(full, i, e) ==
    With({k \in 1..(i - 1) : full[k] = "NL"}, LAMBDA before :
    With({k \in (e + 1)..Len(full) : full[k] = "NL"}, LAMBDA after :
        SubSeq(full, IF before = {} THEN 1 ELSE Max(before) + 1,
                     IF after = {} THEN Len(full) ELSE Min(after) - 1)))

GAN_BLOCK_HINTS ==
    {<<"t", "u_uml", "r", "k", ".", "-", "m", "o", "n", "g", ".">>,
     <<"t", "u", "r", "k", ".", "-", "m", "o", "n", "g", ".">>,
     <<"q", "a", "y", "a", "n">>}

\* a run of at least one whitespace character starts at i: the position after it (0 if none)
AfterSpaces(s, i) ==
    IF i <= Len(s) /\ s[i] \in SPACE_CHARS THEN ClassRunEnd(s, i, SPACE_CHARS) + 1 ELSE 0

\* GAN_BLOCK_PATTERNS[0] = \bna\s+gan\s+s[āa]n\b matches at i
NaGanSanAt(s, i) ==
    /\ WordBoundary(s, i) /\ MatchAtI(s, i, <<"n", "a">>)
    /\ With(AfterSpaces(s, i + 2), LAMBDA j :
          /\ j > 0 /\ MatchAtI(s, j, <<"g", "a", "n">>)
          /\ With(AfterSpaces(s, j + 3), LAMBDA m :
                /\ m > 0 /\ m + 2 <= Len(s)
                /\ Lower(SubSeq(s, m, m + 2)) \in {<<"s", "a", "n">>, <<"s", "a_macron", "n">>}
                /\ WordBoundary(s, m + 3)))

\* GAN_BLOCK_PATTERNS[1] = \bca\s+gan\s+\(skt\. matches at i
CaGanSktAt(s, i) ==
    /\ WordBoundary(s, i) /\ MatchAtI(s, i, <<"c", "a">>)
    /\ With(AfterSpaces(s, i + 2), LAMBDA j :
          /\ j > 0 /\ MatchAtI(s, j, <<"g", "a", "n">>)
          /\ With(AfterSpaces(s, j + 3), LAMBDA m :
                m > 0 /\ MatchAtI(s, m, <<"(", "s", "k", "t", ".">>)))

\* NEXT_SYLLABLE_SKIP.match(tail).group(1).lower(); the empty text if there is no match
NextSyllable(tail) ==
    With(ClassRunEnd(tail, 1, NEXT_SYLLABLE_SKIP_CHARS) + 1, LAMBDA j :
        IF j <= Len(tail) /\ tail[j] \in LATIN_TOKEN_CHARS
        THEN Lower(SubSeq(tail, j, ClassRunEnd(tail, j, LATIN_TOKEN_CHARS)))
        ELSE <<>>)

\* should_skip_rewrite for the token at positions i..e of full
should_skip_rewrite(tok, dst, full, i, e) ==
    IF tok # <<"g", "a", "n">> \/ dst # <<"g", "a", "n_dot">> THEN FALSE
    ELSE With(LineAround(full, i, e), LAMBDA line_text :
         With(Lower(LineAround(full, i, e)), LAMBDA line_lc :
             \/ Contains(line_text, <<"TIB_GA", "TIB_NA">>)
             \/ \E h \in GAN_BLOCK_HINTS : Contains(line_lc, h)
             \/ \E k \in 1..Len(line_text) : NaGanSanAt(line_text, k) \/ CaGanSktAt(line_text, k)
             \/ Contains(line_lc, <<"s", "k", "t", ".">>) /\ ~HasAny(line_text, TIB_CHARS)
             \/ i > 1 /\ full[i-1] \in APOSTROPHE_CHARS
             \/ e < Len(full) /\ full[e+1] \in APOSTROPHE_CHARS
             \/ NextSyllable(SubSeq(full, e + 1, Min({e + 48, Len(full)})))
                   \in {<<"d", "i">>, <<"d", "e">>, <<"t", "i">>}))

\* LATIN_TOKEN_RE.sub(repl, text) from position i on: the text and the pairs replaced
RECURSIVE ApplyFrom(_, _, _)
ApplyFrom(full, i, rw) ==
    IF i > Len(full) THEN [text |-> <<>>, replaced |-> <<>>]
    ELSE IF full[i] \notin LATIN_TOKEN_CHARS
         THEN With(ApplyFrom(full, i + 1, rw), LAMBDA r :
                  [text |-> <<full[i]>> \o r.text, replaced |-> r.replaced])
    ELSE With(LatinTokenEnd(full, i), LAMBDA e :
         With(SubSeq(full, i, LatinTokenEnd(full, i)), LAMBDA tok :
         With(Get(rw, SubSeq(full, i, LatinTokenEnd(full, i))), LAMBDA dst :
         With(ApplyFrom(full, e + 1, rw), LAMBDA r :
             IF dst = <<>> \/ should_skip_rewrite(tok, dst, full, i, e)
             THEN [text |-> tok \o r.text, replaced |-> r.replaced]
             ELSE [text |-> dst \o r.text, replaced |-> <<<<tok, dst>>>> \o r.replaced]))))

\* apply_text with a second pass of LATIN_TOKEN_RE.sub over the rewritten text
apply_text_twice(text, rewrites) ==
    With(ApplyFrom(text, 1, rewrites), LAMBDA first :
    With(ApplyFrom(first.text, 1, rewrites), LAMBDA second :
        [text |-> second.text, replaced |-> first.replaced \o second.replaced]))

\* apply_text: the rewritten text and, for the Counter counts, the pairs in the order
\* they were counted
apply_text(text, rewrites) == ApplyFrom(text, 1, rewrites)


(***************************************************************************)
(* ng_dot_candidate_report.py: the n / n-tilde / dotted-n candidate table  *)
(***************************************************************************)

\* normalize_line (the same in both reports)
normalize_line(s) == CollapseWs(Translate({<<"FF", " ">>}, NFC(s)))

\* the clusters of ROMAN_CUE_RE
ROMAN_CUE_CLUSTERS ==
    {<<"k", "h">>, <<"t", "s", "h">>, <<"t", "s">>, <<"p", "h">>, <<"t", "h">>, <<"d", "h">>,
     <<"b", "h">>, <<"d", "z">>, <<"r", "d", "z">>}

\* bool(ROMAN_CUE_RE.search(s))
RomanCue(s) ==
    \/ HasAny(s, ROMAN_CUE_CHARS)
    \/ \E i \in 1..Len(s) : \E cl \in ROMAN_CUE_CLUSTERS : MatchAtI(s, i, cl)

is_tibetan_translit_line(line) == HasAny(line, TIB_CHARS) /\ RomanCue(line)

\* the end of the TIB_SPAN_RE match that starts at the Tibetan character at i: the last
\* Tibetan character of the run of Tibetan characters and whitespace that starts at i
TibSpanEnd(s, i) ==
    Max({j \in i..Len(s) : s[j] \in TIB_CHARS /\ \A k \in i..j : s[k] \in TIB_CHARS \cup SPACE_CHARS})

\* the ends of the matches of TIB_SPAN_RE.finditer(s) at or after position i
RECURSIVE TibSpanEnds(_, _)
TibSpanEnds(s, i) ==
    With({j \in i..Len(s) : s[j] \in TIB_CHARS}, LAMBDA starts :
        IF starts = {} THEN <<>>
        ELSE With(TibSpanEnd(s, Min(starts)), LAMBDA e : <<e>> \o TibSpanEnds(s, e + 1)))

\* the length of the text looked at after a Tibetan span
WindowLength == 120

\* the characters at which a window stops
WINDOW_DELIMS == {"dq", "ldquo", "rdquo", ";", "(", ")", "[", "]"}

\* the window after the Tibetan span that ends at e: the text after it, cut at the first
\* delimiter, stripped
TranslitWindow(line, e) ==
    With(SubSeq(line, e + 1, Min({Len(line), e + WindowLength})), LAMBDA rest :
    With({i \in 1..Len(rest) : rest[i] \in WINDOW_DELIMS}, LAMBDA cuts :
        Strip(IF cuts = {} THEN rest ELSE SubSeq(rest, 1, Min(cuts) - 1))))

\* iter_translit_windows(line): the windows that are not empty, in order
iter_translit_windows(line) ==
    With(TibSpanEnds(line, 1), LAMBDA ends :
        SelectSeq(AsSeq([k \in 1..Len(ends) |-> TranslitWindow(line, ends[k])]),
                  LAMBDA w : w # <<>>))

\* the end of the token that starts at i: runs of the characters of class joined by
\* single hyphens
RECURSIVE TokenEnd(_, _, _)
TokenEnd(s, i, class) ==
    IF i < Len(s) /\ s[i + 1] \in class THEN TokenEnd(s, i + 1, class)
    ELSE IF i + 1 < Len(s) /\ s[i + 1] = "-" /\ s[i + 2] \in class THEN TokenEnd(s, i + 2, class)
    ELSE i

\* the matches <<start, end>> of a token pattern at or after position i, in order
RECURSIVE TokenSpans(_, _, _)
TokenSpans(s, i, class) ==
    With({j \in i..Len(s) : s[j] \in class}, LAMBDA starts :
        IF starts = {} THEN <<>>
        ELSE With(TokenEnd(s, Min(starts), class), LAMBDA e :
                 <<<<Min(starts), e>>>> \o TokenSpans(s, e + 1, class)))

\* [m.group(0) for m in LATIN_TOKEN_RE.finditer(s)]
Tokens(s, class) ==
    With(TokenSpans(s, 1, class), LAMBDA spans :
        AsSeq([k \in 1..Len(spans) |-> SubSeq(s, spans[k][1], spans[k][2])]))

NVAR_CHARS == {"n", "n_tilde", "n_dot"}

PROTECTED_NY ==
    {<<"s", "n_tilde", "a", "n">>, <<"n_tilde", "a", "n">>, <<"n_tilde", "o", "n">>,
     <<"g", "n_tilde", "a", "n">>}

has_n_variant_context(tok) == HasAny(Lower(tok), NVAR_CHARS)

\* canon_key of ng_dot_candidate_report
ng_canon_key(tok) ==
    Translate({<<"n_tilde", "n">>, <<"n_dot", "n">>, <<"rsquo", "'">>}, Lower(NFC(tok)))

\* n_pos_counts(tok): <<b_ie, not_ie>>
n_pos_counts(tok) ==
    With(Translate({<<"rsquo", "'">>}, Lower(tok)), LAMBDA t :
    With({i \in 1..Len(t) : t[i] \in NVAR_CHARS}, LAMBDA ns :
    With({i \in ns : i < Len(t) /\ t[i + 1] \in {"i", "e", "i_macron"}}, LAMBDA ie :
        <<Cardinality(ie), Cardinality(ns \ ie)>>)))

\* the tokens of a line that are counted: LATIN_TOKEN_RE matches of the windows, lower
\* case, of three characters or more, valid, not protected, with an n of some kind
CountedTokens(line) ==
    With(iter_translit_windows(line), LAMBDA windows :
        SelectSeq(Flat(AsSeq([k \in 1..Len(windows) |->
                      With(Tokens(windows[k], NG_LATIN_TOKEN_CHARS), LAMBDA toks :
                          AsSeq([j \in 1..Len(toks) |->
                                    Translate({<<"rsquo", "'">>}, Lower(toks[j]))]))])),
                  LAMBDA tok_l : /\ Len(tok_l) >= 3
                                 /\ \A i \in 1..Len(tok_l) : tok_l[i] \in TOKEN_VALID_CHARS
                                 /\ tok_l \notin PROTECTED_NY
                                 /\ has_n_variant_context(tok_l)
                                 /\ Len(ng_canon_key(tok_l)) >= 3))

\* TokenStats() of a token seen for the first time, with its group key
NewTokenStats(key, tok) ==
    [key |-> key, tok |-> tok, count |-> 0, tib_nga_lines |-> 0, tib_nya_lines |-> 0,
     n_before_ie_count |-> 0, n_not_before_ie_count |-> 0, example |-> <<>>]

\* the body of the loop over the tokens: one occurrence of tok_l on the line
CountToken(st, line, tok_l) ==
    [st EXCEPT !.count = @ + 1,
               !.tib_nga_lines = IF HasAny(line, {"TIB_NGA"}) THEN @ + 1 ELSE @,
               !.tib_nya_lines = IF HasAny(line, {"TIB_NYA"}) THEN @ + 1 ELSE @,
               !.n_before_ie_count = @ + n_pos_counts(tok_l)[1],
               !.n_not_before_ie_count = @ + n_pos_counts(tok_l)[2],
               !.example = IF @ = <<>> THEN line ELSE @]

\* groups and stats after one more occurrence: the entries are kept in the order in which
\* the tokens were first seen, which is the order of the keys of the Counter of a group
AddToken(stats, line, tok_l) ==
    IF \E k \in 1..Len(stats) : stats[k].tok = tok_l
    THEN AsSeq([k \in 1..Len(stats) |->
                   IF stats[k].tok = tok_l THEN CountToken(stats[k], line, tok_l) ELSE stats[k]])
    ELSE Append(stats, CountToken(NewTokenStats(ng_canon_key(tok_l), tok_l), line, tok_l))

RECURSIVE AddTokens(_, _, _)
AddTokens(stats, line, toks) ==
    IF toks = <<>> THEN stats ELSE AddTokens(AddToken(stats, line, Head(toks)), line, Tail(toks))

\* the body of the loop over the lines of the inputs
NgAddLine(stats, raw) ==
    With(normalize_line(raw), LAMBDA line :
        IF line = <<>> \/ ~is_tibetan_translit_line(line) THEN stats
        ELSE AddTokens(stats, line, CountedTokens(line)))

\* token_weighted_score(tok, st), in hundredths
token_weighted_score(tok, st) ==
    With(HasAny(Lower(tok), {"n_dot"}), LAMBDA has_nga :
    With(HasAny(Lower(tok), {"n_tilde"}), LAMBDA has_nya :
    With(HasAny(Lower(tok), {"n"}), LAMBDA has_plain_n :
        100 * st.count
        + (IF has_nga THEN 75 * st.tib_nga_lines ELSE 0)
        + (IF has_nya THEN 75 * st.tib_nya_lines ELSE 0)
        - (IF has_plain_n THEN 20 * (st.tib_nga_lines + st.tib_nya_lines) ELSE 0)
        + (IF has_nya THEN 60 * st.n_before_ie_count - 60 * st.n_not_before_ie_count ELSE 0)
        + (IF has_nga THEN 60 * st.n_not_before_ie_count - 30 * st.n_before_ie_count ELSE 0)
        - (IF has_plain_n THEN 25 * st.n_not_before_ie_count ELSE 0))))

risk_label(src, dst, src_st, dst_st) ==
    With(HasAny(Lower(src), {"n"}), LAMBDA src_has_plain :
    With(HasAny(Lower(dst), {"n_dot", "n_tilde"}), LAMBDA dst_has_diac :
    With(src_st.tib_nga_lines + src_st.tib_nya_lines + dst_st.tib_nga_lines
            + dst_st.tib_nya_lines, LAMBDA evidence :
        IF dst_has_diac /\ src_has_plain /\ evidence >= 5 THEN "medium"
        ELSE IF dst_has_diac /\ evidence >= 8 THEN "low"
        ELSE "review")))

\* the sort key (token_weighted_score, count) of a form: x ranks above y
RanksAbove(x, y) ==
    \/ token_weighted_score(x.tok, x) > token_weighted_score(y.tok, y)
    \/ /\ token_weighted_score(x.tok, x) = token_weighted_score(y.tok, y)
       /\ x.count > y.count

\* the first form of a group that no form ranks above: ranked[0] of the stable sort in
\* descending order, and max() over the forms in their order
BestOf(forms) ==
    forms[Min({k \in 1..Len(forms) : \A j \in 1..Len(forms) : ~RanksAbove(forms[j], forms[k])})]

\* a row of the table
NgRow(cand_st, best_st, total) ==
    [canon_key |-> cand_st.key, from_token |-> cand_st.tok, to_token |-> best_st.tok,
     from_count |-> cand_st.count, to_count |-> best_st.count, group_total |-> total,
     from_weighted_score |-> token_weighted_score(cand_st.tok, cand_st),
     to_weighted_score |-> token_weighted_score(best_st.tok, best_st),
     risk |-> risk_label(cand_st.tok, best_st.tok, cand_st, best_st)]

\* sum(c.values()) of a group
RECURSIVE GroupTotal(_)
GroupTotal(forms) ==
    IF forms = <<>> THEN 0
    ELSE forms[1].count + GroupTotal(Tail(forms))

\* the group is reported only if it is frequent enough and has two forms or more
GroupReported(forms, min_group_total) == GroupTotal(forms) >= min_group_total /\ Len(forms) >= 2

\* mode general: every form of the group with a lower score than the best, to the best
GeneralRows(forms) ==
    {NgRow(forms[k], BestOf(forms), GroupTotal(forms)) :
        k \in {j \in 1..Len(forms) :
                  token_weighted_score(BestOf(forms).tok, BestOf(forms))
                     > token_weighted_score(forms[j].tok, forms[j])}}

\* mode n_to_dot_only: the plain-n forms of the group, to the best of its dotted forms
DotOnlyRows(forms, min_nga_evidence) ==
    With(SelectSeq(forms, LAMBDA f : HasAny(f.tok, {"n_dot"}) /\ ~HasAny(f.tok, {"n_tilde"})),
         LAMBDA dotted :
    With(SelectSeq(forms, LAMBDA f : HasAny(f.tok, {"n"}) /\ ~HasAny(f.tok, {"n_dot", "n_tilde"})),
         LAMBDA plain :
        IF dotted = <<>> \/ plain = <<>> THEN {}
        ELSE IF BestOf(dotted).tib_nga_lines < min_nga_evidence THEN {}
        ELSE {NgRow(plain[k], BestOf(dotted), GroupTotal(forms)) :
                 k \in {j \in 1..Len(plain) :
                           /\ plain[j].tok \notin PROTECTED_NY /\ BestOf(dotted).tok \notin PROTECTED_NY
                           /\ ~(plain[j].count < 2 /\ BestOf(dotted).count < 2)
                           /\ ~(plain[j].n_before_ie_count > plain[j].n_not_before_ie_count)}}))

\* the rows of the table written from the groups; the order of the rows is left out
NgRows(stats, a) ==
    UNION {With(SelectSeq(stats, LAMBDA st : st.key = key), LAMBDA forms :
               IF ~GroupReported(forms, a.min_group_total) THEN {}
               ELSE IF a.mode = "general" THEN GeneralRows(forms)
               ELSE DotOnlyRows(forms, a.min_nga_evidence)) :
           key \in {stats[k].key : k \in 1..Len(stats)}}

(***************************************************************************)
(* token_variant_report.py: the variant groups and the conservative        *)
(* rewrite candidates                                                      *)
(***************************************************************************)

\* the abbreviations of BIB_MARKER_RE
BIB_MARKERS ==
    {<<"e", "d", ":">>, <<"e", "d", ".", ":">>, <<"h", "r", "s", "g", ".">>, <<"p", "p", ".">>,
     <<"v", "o", "l", ".">>, <<"n", "o", ".">>, <<"n", "r", ".">>, <<"i", "b", "i", "d", ".">>,
     <<"t", "r", "a", "n", "s", ".">>, <<"t", "r", ".">>}

\* BIB_MARKER_RE matches at position i: \b, a marker, \b
BibMarkerAt(s, i) ==
    /\ WordBoundary(s, i)
    /\ \E mk \in BIB_MARKERS : MatchAtI(s, i, mk) /\ WordBoundary(s, i + Len(mk))

\* the words of SKT_MARKER_RE
SKT_MARKER_WORDS ==
    {<<"s", "k", "t">>, <<"s", "k", "r">>, <<"s", "a", "n", "s", "k", "r", "i", "t">>,
     <<"i", "a", "s", "t">>}

\* SKT_MARKER_RE matches at position i: \b, a word, an optional full stop, \b
SktMarkerAt(s, i) ==
    /\ WordBoundary(s, i)
    /\ \E w \in SKT_MARKER_WORDS :
          /\ MatchAtI(s, i, w)
          /\ \/ WordBoundary(s, i + Len(w))
             \/ /\ i + Len(w) <= Len(s) /\ s[i + Len(w)] = "."
                /\ WordBoundary(s, i + Len(w) + 1)

line_category(s) ==
    With(HasAny(s, TIB_CHARS), LAMBDA has_tib :
    With(RomanCue(s), LAMBDA has_roman_cues :
    With((\E i \in 1..Len(s) : BibMarkerAt(s, i))
            \/ Cardinality({i \in 1..Len(s) : YearAt(s, i)}) >= 2, LAMBDA bib :
        IF bib THEN "names_citations"
        ELSE IF has_tib /\ has_roman_cues THEN "tibetan_translit"
        ELSE IF \E i \in 1..Len(s) : SktMarkerAt(s, i) THEN "tibetan_translit"
        ELSE "german_or_other")))

GERMAN_STOPWORDS ==
    {<<"d", "e", "r">>, <<"d", "i", "e">>, <<"d", "a", "s">>, <<"d", "e", "n">>, <<"d", "e", "m">>,
     <<"d", "e", "s">>, <<"u", "n", "d">>, <<"o", "d", "e", "r">>, <<"e", "i", "n">>,
     <<"e", "i", "n", "e">>, <<"e", "i", "n", "e", "r">>, <<"e", "i", "n", "e", "m">>,
     <<"i", "c", "h">>, <<"d", "u">>, <<"e", "r">>, <<"s", "i", "e">>, <<"w", "i", "r">>,
     <<"i", "h", "r">>, <<"w", "i", "e">>, <<"m", "i", "t">>, <<"v", "o", "n">>,
     <<"f", "u_uml", "r">>, <<"a", "u", "f">>, <<"i", "s", "t">>, <<"s", "i", "n", "d">>,
     <<"w", "a", "r">>, <<"h", "a", "t">>, <<"h", "a", "b", "e", "n">>,
     <<"n", "i", "c", "h", "t">>, <<"a", "u", "c", "h">>, <<"z", "u">>, <<"i", "m">>,
     <<"i", "n">>, <<"a", "m">>, <<"a", "n">>}

\* the distance to the left and to the right of a token within which Tibetan script is near
TibetanNear == 24

\* the parts of a token between its hyphens
RECURSIVE HyphenParts(_)
HyphenParts(tok) ==
    With({i \in 1..Len(tok) : tok[i] = "-"}, LAMBDA hs :
        IF hs = {} THEN <<tok>>
        ELSE <<SubSeq(tok, 1, Min(hs) - 1)>> \o HyphenParts(From(tok, Min(hs) + 1)))

\* a part of a name: a first character of class first, then one or more of class rest
NamePart(part, first, rest) ==
    /\ Len(part) >= 2
    /\ part[1] \in first
    /\ \A i \in 2..Len(part) : part[i] \in rest

\* bool(TITLE_NAME_RE.fullmatch(tok))
TitleName(tok) ==
    \A k \in 1..Len(HyphenParts(tok)) :
        NamePart(HyphenParts(tok)[k], TITLE_UPPER_CHARS, TITLE_LETTER_CHARS)

\* the clusters of has_cluster
SHAPE_CLUSTERS == ROMAN_CUE_CLUSTERS \cup {<<"n", "g">>, <<"n", "y">>}

\* token_category(line, tok, start, end, line_cat); start is the 1-based position of the
\* first character of the token and end that of its last character
token_category(line, tok, start, end, line_cat) ==
    With(SubSeq(line, Max({1, start - TibetanNear}), Min({Len(line), end + TibetanNear})),
         LAMBDA window :
    With(HasAny(window, TIB_CHARS), LAMBDA near_tibetan :
    With(Lower(tok), LAMBDA tok_l :
    With(\A i \in 1..Len(tok_l) : tok_l[i] \in TOKEN_VALID_CHARS, LAMBDA maybe_translit_shape :
    With(\E i \in 1..Len(tok_l) : \E cl \in SHAPE_CLUSTERS : MatchAt(tok_l, i, cl),
         LAMBDA has_cluster :
        IF line_cat = "names_citations" THEN "names_citations"
        ELSE IF near_tibetan /\ tok_l \in GERMAN_STOPWORDS THEN "german_or_other"
        ELSE IF near_tibetan /\ (RomanCue(tok) \/ HasAny(tok, IAST_CHARS)) THEN "tibetan_translit"
        ELSE IF near_tibetan /\ maybe_translit_shape
                   /\ (has_cluster \/ HasAny(tok_l, {"'", "rsquo"})) THEN "tibetan_translit"
        ELSE IF TitleName(tok) /\ ~HasAny(tok, GERMAN_CHARS) THEN "names_citations"
        ELSE "german_or_other")))))

\* simplify(x) of conservative_pair_allowed
simplify(x) == Translate(CONFUSABLE_FROM, x)

\* canon_key of token_variant_report
canon_key(tok) ==
    DropChars(Lower(Translate(CANON_MAP, simplify(NFC(tok)))), {"'", "rsquo", "-"})

token_quality_score(tok, category) ==
    (IF HasAny(tok, SYMBOL_OR_DIGIT_CHARS) THEN 0 - 20 ELSE 0)
    + (IF HasAny(tok, {"dotless_i"}) THEN 0 - 12 ELSE 0)
    + (IF HasAny(tok, {"$"}) THEN 0 - 15 ELSE 0)
    + (IF HasAny(tok, {"u_grave", "notsign"}) THEN 0 - 12 ELSE 0)
    + (IF category = "tibetan_translit"
       THEN 2 * Count(tok, IAST_LOWER_CHARS)
            + (IF tok # <<>> /\ \A i \in 1..Len(tok) : tok[i] \in QUALITY_TRANSLIT_CHARS
               THEN 6 ELSE 0)
            + (IF HasAny(tok, GERMAN_CHARS) THEN 0 - 6 ELSE 0)
       ELSE IF category = "names_citations"
       THEN (IF /\ Len(HyphenParts(tok)) <= 2
                /\ \A k \in 1..Len(HyphenParts(tok)) :
                      NamePart(HyphenParts(tok)[k], TITLE_UPPER_CHARS, GERMAN_LOWER_CHARS)
             THEN 5 ELSE 0)
            + (IF HasAny(tok, IAST_LOWER_CHARS) THEN 1 ELSE 0)
       ELSE (IF HasAny(tok, GERMAN_CHARS) THEN 3 ELSE 0)
            + (IF HasAny(tok, IAST_LOWER_CHARS) THEN 0 - 1 ELSE 0))

\* the largest number of character edits between two forms of a conservative pair
MaxDiffs == 2

\* diffs of conservative_pair_allowed: the positions at which sa and sb differ, and the
\* difference of their lengths
Diffs(sa, sb) ==
    Cardinality({i \in 1..Min({Len(sa), Len(sb)}) : sa[i] # sb[i]})
    + (IF Len(sa) > Len(sb) THEN Len(sa) - Len(sb) ELSE Len(sb) - Len(sa))

conservative_pair_allowed(src, dst, category) ==
    IF src = dst THEN FALSE
    ELSE IF Len(src) < 3 \/ Len(dst) < 3 THEN FALSE
    ELSE IF category = "names_citations" /\ Lower(src) = Lower(dst) THEN TRUE
    ELSE IF simplify(src) = simplify(dst) THEN TRUE
    ELSE IF canon_key(src) # canon_key(dst) THEN FALSE
    ELSE Diffs(simplify(src), simplify(dst)) <= MaxDiffs

\* one occurrence of a token: groups[(cat, key)][tok] += 1; the entries are kept in the
\* order in which they were first counted
CountForm(groups, cat, key, tok) ==
    IF \E k \in 1..Len(groups) : groups[k].cat = cat /\ groups[k].key = key /\ groups[k].tok = tok
    THEN AsSeq([k \in 1..Len(groups) |->
                   IF groups[k].cat = cat /\ groups[k].key = key /\ groups[k].tok = tok
                   THEN [groups[k] EXCEPT !.count = @ + 1] ELSE groups[k]])
    ELSE Append(groups, [cat |-> cat, key |-> key, tok |-> tok, count |-> 1])

\* the loop over the tokens of a line
RECURSIVE CountForms(_, _, _)
CountForms(groups, line, spans) ==
    IF spans = <<>> THEN groups
    ELSE With(SubSeq(line, Head(spans)[1], Head(spans)[2]), LAMBDA tok :
             IF Len(tok) < 3 \/ Len(canon_key(tok)) < 3 THEN CountForms(groups, line, Tail(spans))
             ELSE CountForms(CountForm(groups,
                                       token_category(line, tok, Head(spans)[1], Head(spans)[2],
                                                      line_category(line)),
                                       canon_key(tok), tok),
                             line, Tail(spans)))

\* the body of the loop over the lines of the inputs
TvAddLine(groups, raw_line) ==
    With(normalize_line(raw_line), LAMBDA line :
        IF line = <<>> THEN groups
        ELSE CountForms(groups, line, TokenSpans(line, 1, TV_LATIN_TOKEN_CHARS)))

\* the sort key (count, token_quality_score) of a form: x ranks above y
TvRanksAbove(x, y) ==
    \/ x.count > y.count
    \/ /\ x.count = y.count
       /\ token_quality_score(x.tok, x.cat) > token_quality_score(y.tok, y.cat)

\* sorted(c.items(), key = ..., reverse = True): a stable sort, the forms of equal rank
\* stay in the order in which they were first counted
RECURSIVE Ranked(_)
Ranked(forms) ==
    IF forms = <<>> THEN <<>>
    ELSE With(Min({k \in 1..Len(forms) : \A j \in 1..Len(forms) : ~TvRanksAbove(forms[j], forms[k])}),
              LAMBDA b :
             <<forms[b]>> \o Ranked(SubSeq(forms, 1, b - 1) \o From(forms, b + 1)))

\* the winner's share and its gap to the second reach the fractions, given in hundredths
WinnerClear(wcnt, second_cnt, total, min_winner_share, min_winner_gap) ==
    /\ ~(100 * wcnt < min_winner_share * total)
    /\ ~(100 * (wcnt - second_cnt) < min_winner_gap * total)

\* the rows of conservative_rewrite_candidates.tsv for one group; winner_share and
\* winner_gap are kept as fractions of the group total
RewriteRows(forms, a) ==
    With(Ranked(forms), LAMBDA ranked :
        IF ~GroupReported(forms, a.min_group_total) THEN {}
        ELSE IF ~WinnerClear(ranked[1].count, ranked[2].count, GroupTotal(forms),
                             a.min_winner_share, a.min_winner_gap) THEN {}
        ELSE {[category |-> ranked[k].cat, canon_key |-> ranked[k].key,
               from_token |-> ranked[k].tok, to_token |-> ranked[1].tok,
               from_count |-> ranked[k].count, to_count |-> ranked[1].count,
               winner_share |-> <<ranked[1].count, GroupTotal(forms)>>,
               winner_gap |-> <<ranked[1].count - ranked[2].count, GroupTotal(forms)>>] :
                 k \in {j \in 2..Len(ranked) :
                           conservative_pair_allowed(ranked[j].tok, ranked[1].tok, ranked[j].cat)}})

\* the rows of manual_review_candidates.tsv for one group
ReviewRows(forms, a) ==
    With(Ranked(forms), LAMBDA ranked :
        IF ~GroupReported(forms, a.min_group_total) THEN {}
        ELSE {[category |-> ranked[k].cat, canon_key |-> ranked[k].key,
               candidate_token |-> ranked[k].tok, suggested_best_token |-> ranked[1].tok,
               candidate_count |-> ranked[k].count, best_count |-> ranked[1].count,
               group_total |-> GroupTotal(forms),
               quality_delta |-> token_quality_score(ranked[1].tok, ranked[1].cat)
                                    - token_quality_score(ranked[k].tok, ranked[k].cat),
               risk |-> IF conservative_pair_allowed(ranked[k].tok, ranked[1].tok, ranked[k].cat)
                        THEN IF ~(100 * ranked[1].count < a.min_winner_share * GroupTotal(forms))
                             THEN "low" ELSE "medium"
                        ELSE "high"] : k \in 2..Len(ranked)})

\* the forms of the group (cat, key), in the order in which they were first counted
GroupForms(groups, cat, key) == SelectSeq(groups, LAMBDA g : g.cat = cat /\ g.key = key)

\* the rows of a table over all the groups; the order of the rows is left out
TvRows(groups, a, Rows(_, _)) ==
    UNION {Rows(GroupForms(groups, groups[k].cat, groups[k].key), a) : k \in 1..Len(groups)}

(* STATE ******************************************************************)
(* The programs as state machines.  The variables are the locals of main   *)
(* of line_anchor_merge_pilot.py that live across the per-line loop, and   *)
(* of main of apply_approved_rewrites.py; a specification that follows one *)
(* of the programs leaves the variables of the other at their initial      *)
(* values.                                                                 *)
(***************************************************************************)
VARIABLES
    pc,               \* the position of main
    error,            \* the exception that ended the run, "" while there is none
    args,             \* the command line of line_anchor_merge_pilot.py
    lines,            \* parse_hocr_lines(hocr): records [bbox, text]
    idx,              \* the line the per-line loop is at, from 1
    procs,            \* what each tesseract subprocess of the line did
    b_candidates,     \* the pairs <<source, bt>> of the line
    raw_final_lines,
    page_audit_meta,
    page_candidates,
    page_replaced,
    merged_lines,
    pages,            \* the page numbers main goes through
    page_no,          \* the position in pages of the page the loop is at, from 1
    merged_pages,     \* the text of each page that is done
    merged_out,       \* the text written to the merged file
    renormalized,     \* the lines of a second run of the normalizer over merged_lines
    zones,            \* line_zones of each line of the page
    approved,         \* the rows of the approved-rewrite table
    rewrites,         \* load_rewrites: the pairs <<src, dst>> of the dict
    conflicts,        \* load_rewrites: the triples <<src, prev, dst>>
    inputs,           \* the input texts of apply_approved_rewrites.py
    written,          \* the files the approval run has written: <<name, content>>
    corpus,           \* the lines of the input files of the two report programs
    ng_args,          \* the command line of ng_dot_candidate_report.py
    ng_idx,           \* the line the read loop of ng_dot_candidate_report.py is at, from 1
    stats,            \* stats of ng_dot_candidate_report.py: the TokenStats in insertion order
    ng_report,        \* <<rows>> once ng_dot_candidate_report.py has written its table
    tv_args,          \* the command line of token_variant_report.py
    tv_idx,           \* the line the read loop of token_variant_report.py is at, from 1
    groups,           \* groups of token_variant_report.py: the counted forms in insertion order
    tv_reports        \* <<rewrites, review>> once token_variant_report.py has written its tables

pilotVars == <<args, lines, idx, procs, b_candidates, raw_final_lines, page_audit_meta,
               page_candidates, page_replaced, merged_lines, pages, page_no, merged_pages,
               merged_out>>
documentVars == <<pages, page_no, merged_pages, merged_out>>
probeVars == <<renormalized, zones>>
approveVars == <<approved, rewrites, conflicts, inputs, written>>
aggregatorVars == <<corpus, ng_args, ng_idx, stats, ng_report, tv_args, tv_idx, groups, tv_reports>>
vars == <<pc, error, pilotVars, probeVars, approveVars, aggregatorVars>>

\* the texts made of at most n of the chunks
RECURSIVE Texts(_, _)
Texts(chunks, n) ==
    IF n = 0 THEN {<<>>}
    ELSE With(Texts(chunks, n - 1), LAMBDA shorter :
             shorter \cup {t \o c : t \in shorter, c \in chunks})

\* the pages of at most n lines
RECURSIVE Pages(_, _)
Pages(lineSet, n) ==
    IF n = 0 THEN {<<>>}
    ELSE With(Pages(lineSet, n - 1), LAMBDA shorter :
             shorter \cup {Append(p, l) : p \in shorter, l \in lineSet})

\* the defaults of --min-similarity, --min-similarity-diacritic-only and
\* --min-similarity-tibetan-anchor, in hundredths
DefaultMinSimilarity == 85
DefaultMinSimilarityDiacriticOnly == 78
DefaultMinSimilarityTibetanAnchor == 73

\* the pad of the call of crop_image in main
CropPad == 4

Args(thresholds, candidate_mode, crop_variants, psm_b_lines, psm_b_lines_tib) ==
    [min_similarity |-> thresholds[1],
     min_similarity_diacritic_only |-> thresholds[2],
     min_similarity_tibetan_anchor |-> thresholds[3],
     candidate_mode |-> candidate_mode,
     crop_variants |-> crop_variants,
     psm_b_lines |-> psm_b_lines,
     psm_b_lines_tib |-> psm_b_lines_tib,
     page_separator |-> "formfeed"]

DefaultThresholds ==
    <<DefaultMinSimilarity, DefaultMinSimilarityDiacriticOnly, DefaultMinSimilarityTibetanAnchor>>

\* the size <<w, h>> of the rendered page image
PageImageSize == <<12, 12>>

\* the values of the variables a specification does not use, and of the rest at the start
\* main is at the first line of the only page of its run
SinglePage ==
    /\ pages = <<1>>
    /\ page_no = 1
    /\ merged_pages = <<>>
    /\ merged_out = <<>>

PilotIdle ==
    /\ args = Args(DefaultThresholds, "heuristic", <<"raw">>, <<7>>, <<7>>)
    /\ lines = <<>>
    /\ idx = 1
    /\ procs = <<>>
    /\ b_candidates = <<>>
    /\ raw_final_lines = <<>>
    /\ page_audit_meta = <<>>
    /\ page_candidates = 0
    /\ page_replaced = 0
    /\ merged_lines = <<>>
    /\ SinglePage

ProbeIdle == renormalized = <<>> /\ zones = <<>>

\* the output directory before anything is written to it
NothingWritten ==
    [files |-> {}, conflicts |-> <<>>, summary |-> <<>>, outputs |-> <<>>, detail |-> {}]

ApproveIdle ==
    /\ approved = [fieldnames |-> {}, rows |-> <<>>]
    /\ rewrites = {}
    /\ conflicts = <<>>
    /\ inputs = <<>>
    /\ written = NothingWritten

\* the defaults of --min-group-total and --min-nga-evidence of ng_dot_candidate_report.py
NgDefaultMinGroupTotal == 3
DefaultMinNgaEvidence == 3

\* the defaults of --min-group-total, --min-winner-share and --min-winner-gap of
\* token_variant_report.py, the fractions in hundredths
TvDefaultMinGroupTotal == 5
DefaultMinWinnerShare == 72
DefaultMinWinnerGap == 20

NgArgs(min_group_total, mode) ==
    [min_group_total |-> min_group_total, mode |-> mode, min_nga_evidence |-> DefaultMinNgaEvidence]

TvArgs(min_group_total) ==
    [min_group_total |-> min_group_total, min_winner_share |-> DefaultMinWinnerShare,
     min_winner_gap |-> DefaultMinWinnerGap]

AggregatorIdle ==
    /\ corpus = <<>>
    /\ ng_args = NgArgs(NgDefaultMinGroupTotal, "general")
    /\ ng_idx = 1
    /\ stats = <<>>
    /\ ng_report = <<>>
    /\ tv_args = TvArgs(TvDefaultMinGroupTotal)
    /\ tv_idx = 1
    /\ groups = <<>>
    /\ tv_reports = <<>>

\* the sources of the secondary reads of a line, in the order of the two loops of main
RECURSIVE SourcesOf(_, _)
SourcesOf(variants, psms) ==
    IF variants = <<>> THEN <<>>
    ELSE AsSeq([k \in 1..Len(psms) |-> <<Head(variants), "_psm", psms[k]>>])
         \o SourcesOf(Tail(variants), psms)

LineSources(a_text) ==
    SourcesOf(args.crop_variants,
              IF HasAny(a_text, TIB_CHARS) THEN args.psm_b_lines_tib ELSE args.psm_b_lines)

\* the body of "if is_candidate" after the reads: selector, arbiter and splice
ArbitrateLine(a_text, cands, a) ==
    With(choose_best_b_text(a_text, cands), LAMBDA best :
    With(should_replace(a_text, best[2], a.min_similarity, a.min_similarity_diacritic_only,
                            a.min_similarity_tibetan_anchor), LAMBDA d :
    With(IF ~d.use_b /\ d.reason = "lost_tibetan_script"
                   THEN maybe_splice_tibetan_prefix_with_b_tail(a_text, best[2],
                            a.min_similarity_tibetan_anchor)
                   ELSE <<>>, LAMBDA spliced :
        IF spliced # <<>>
        THEN [use_b |-> TRUE, reason |-> "replace_splice_tibetan_prefix_b_tail",
              b_text |-> spliced, b_source |-> best[1] \o <<"+splice">>,
              similarity |-> d.similarity, a_d |-> d.a_d,
              b_d |-> Count(spliced, DIACRITIC_CHARS)]
        ELSE [use_b |-> d.use_b, reason |-> d.reason, b_text |-> best[2], b_source |-> best[1],
              similarity |-> d.similarity, a_d |-> d.a_d, b_d |-> d.b_d])))

\* the end of the body of the per-line loop with a final_text that is the secondary text
\* whenever there is one, accepted or not
EmitLineAnySecondary(is_candidate, d) ==
    With(lines[idx].text, LAMBDA a_text :
        /\ raw_final_lines' = Append(raw_final_lines, IF d.b_text # <<>> THEN d.b_text ELSE a_text)
        /\ page_replaced' = IF d.use_b THEN page_replaced + 1 ELSE page_replaced
        /\ page_audit_meta' = Append(page_audit_meta,
               [line |-> idx, candidate |-> is_candidate, replaced |-> IF d.use_b THEN 1 ELSE 0,
                reason |-> d.reason, similarity |-> d.similarity, a_diacritics |-> d.a_d,
                b_diacritics |-> d.b_d, a_text |-> a_text, b_text |-> d.b_text,
                b_source |-> d.b_source])
        /\ idx' = idx + 1)

\* the end of the body of the per-line loop: final_text, the counters and the audit row
EmitLine(is_candidate, d) ==
    With(lines[idx].text, LAMBDA a_text :
        /\ raw_final_lines' = Append(raw_final_lines, IF d.use_b THEN d.b_text ELSE a_text)
        /\ page_replaced' = IF d.use_b THEN page_replaced + 1 ELSE page_replaced
        /\ page_audit_meta' = Append(page_audit_meta,
               [line |-> idx, candidate |-> is_candidate, replaced |-> IF d.use_b THEN 1 ELSE 0,
                reason |-> d.reason, similarity |-> d.similarity, a_diacritics |-> d.a_d,
                b_diacritics |-> d.b_d, a_text |-> a_text, b_text |-> d.b_text,
                b_source |-> d.b_source])
        /\ idx' = idx + 1)

(***************************************************************************)
(* line_anchor_merge_pilot.py: the per-line loop of main over one page     *)
(***************************************************************************)

\* what a tesseract subprocess can do with the given outputs: run out of time, fail
\* (whatever it has printed), or print one of the outputs
TesseractRuns(outputs) ==
    {[kind |-> "timeout", returncode |-> 0, stdout |-> <<>>]}
    \cup {[kind |-> "exit", returncode |-> rc, stdout |-> out] : rc \in {0, 1}, out \in outputs}

\* a line that is no candidate keeps its primary text
KeepNonCandidate ==
    /\ pc = "line" /\ idx <= Len(lines)
    /\ ~IsCandidate(args.candidate_mode, lines[idx].text)
    /\ EmitLine(0, [use_b |-> FALSE, reason |-> "non_candidate", b_text |-> <<>>,
                    b_source |-> <<>>, similarity |-> <<0, 1>>,
                    a_d |-> Count(lines[idx].text, DIACRITIC_CHARS), b_d |-> 0])
    /\ UNCHANGED <<pc, error, args, lines, procs, b_candidates, page_candidates, merged_lines>>
    /\ UNCHANGED <<documentVars, probeVars, approveVars, aggregatorVars>>

\* a candidate line is cropped out of the page image
CropLine ==
    /\ pc = "line" /\ idx <= Len(lines)
    /\ IsCandidate(args.candidate_mode, lines[idx].text)
    /\ crop_image(PageImageSize, lines[idx].bbox, CropPad)
    /\ page_candidates' = page_candidates + 1
    /\ pc' = "ocr"
    /\ procs' = <<>>
    /\ b_candidates' = <<>>
    /\ UNCHANGED <<error, args, lines, idx, raw_final_lines, page_audit_meta, page_replaced,
                   merged_lines>>
    /\ UNCHANGED <<documentVars, probeVars, approveVars, aggregatorVars>>

\* crop_image raises RuntimeError: nothing in main catches it
CropRaises ==
    /\ pc = "line" /\ idx <= Len(lines)
    /\ IsCandidate(args.candidate_mode, lines[idx].text)
    /\ ~crop_image(PageImageSize, lines[idx].bbox, CropPad)
    /\ page_candidates' = page_candidates + 1
    /\ pc' = "aborted"
    /\ error' = "RuntimeError: Invalid crop box"
    /\ UNCHANGED <<args, lines, idx, procs, b_candidates, raw_final_lines, page_audit_meta,
                   page_replaced, merged_lines>>
    /\ UNCHANGED <<documentVars, probeVars, approveVars, aggregatorVars>>

\* one pass of the two loops over the crop variants and the page segmentation modes
RunTesseract(runs) ==
    /\ pc = "ocr"
    /\ Len(b_candidates) < Len(LineSources(lines[idx].text))
    /\ \E proc \in runs :
          With(run_tesseract_stdout_txt(proc), LAMBDA r :
          With(LineSources(lines[idx].text)[Len(b_candidates) + 1], LAMBDA source :
              /\ procs' = Append(procs, proc)
              /\ IF r.raised
                 THEN /\ pc' = "aborted"
                      /\ error' = "TimeoutExpired"
                      /\ UNCHANGED b_candidates
                 ELSE /\ b_candidates' = Append(b_candidates, <<source, r.text>>)
                      /\ UNCHANGED <<pc, error>>))
    /\ UNCHANGED <<args, lines, idx, raw_final_lines, page_audit_meta, page_candidates,
                   page_replaced, merged_lines>>
    /\ UNCHANGED <<documentVars, probeVars, approveVars, aggregatorVars>>

\* the reads of the line are done: choose_best_b_text, should_replace, the splice
Arbitrate ==
    /\ pc = "ocr"
    /\ Len(b_candidates) = Len(LineSources(lines[idx].text))
    /\ EmitLine(1, ArbitrateLine(lines[idx].text, b_candidates, args))
    /\ pc' = "line"
    /\ UNCHANGED <<error, args, lines, procs, b_candidates, page_candidates, merged_lines>>
    /\ UNCHANGED <<documentVars, probeVars, approveVars, aggregatorVars>>

\* the end of a page without post_cleanup_contextual: the texts of the lines go to the
\* page as the Arbiter chose them
FinishPageWithoutCleanup ==
    /\ pc = "line" /\ idx > Len(lines)
    /\ merged_lines' = raw_final_lines
    /\ merged_pages' = Append(merged_pages, JoinWith(<<"NL">>, merged_lines'))
    /\ pc' = IF page_no < Len(pages) THEN "page" ELSE "done"
    /\ UNCHANGED <<error, args, lines, idx, procs, b_candidates, raw_final_lines,
                   page_audit_meta, page_candidates, page_replaced, pages, page_no, merged_out>>
    /\ UNCHANGED <<probeVars, approveVars, aggregatorVars>>

\* after the last line: post_cleanup_contextual over the page, and the text of the page
\* ("\n".join; --dehyphenate-wrap is not given) goes to merged_pages
FinishPage ==
    /\ pc = "line" /\ idx > Len(lines)
    /\ merged_lines' = AsSeq([i \in 1..Len(raw_final_lines) |->
                                post_cleanup_contextual(raw_final_lines, i, raw_final_lines[i])])
    /\ merged_pages' = Append(merged_pages, JoinWith(<<"NL">>, merged_lines'))
    /\ pc' = IF page_no < Len(pages) THEN "page" ELSE "done"
    /\ UNCHANGED <<error, args, lines, idx, procs, b_candidates, raw_final_lines,
                   page_audit_meta, page_candidates, page_replaced, pages, page_no, merged_out>>
    /\ UNCHANGED <<probeVars, approveVars, aggregatorVars>>

\* the bounding boxes of the lines of a page: inside the image, inverted, below the image
PageBoxes == {<<2, 2, 9, 5>>, <<11, 2, 1, 5>>, <<2, 20, 9, 25>>}

\* the texts of the lines of a page and the outputs of the secondary reads
PageTexts ==
    {<<"TIB_BA", "TIB_KA", "TIB_ACHUNG", "TIB_TSHEG", " ", "g", "a", "n">>,
     <<"g", "a", "n_dot", " ", "p", "o">>,
     <<"d", "a", "s", " ", "W", "o", "r", "t">>}

PageOutputs ==
    {<<"TIB_BA", "TIB_KA", "TIB_ACHUNG", "TIB_TSHEG", " ", "g", "a", "n_dot", "NL", "FF">>,
     <<"g", "a", "n_dot", "NL">>}

\* the largest number of lines of a page
MaxLines == 2

PageLines == {[bbox |-> b, text |-> normalize_text(t)] : b \in PageBoxes, t \in PageTexts}

Init ==
    /\ pc = "line"
    /\ error = ""
    /\ args = Args(DefaultThresholds, "heuristic", <<"raw", "auto">>, <<7>>, <<7>>)
    /\ lines \in Pages(PageLines, MaxLines)
    /\ idx = 1
    /\ procs = <<>>
    /\ b_candidates = <<>>
    /\ raw_final_lines = <<>>
    /\ page_audit_meta = <<>>
    /\ page_candidates = 0
    /\ page_replaced = 0
    /\ merged_lines = <<>>
    /\ SinglePage
    /\ ProbeIdle
    /\ ApproveIdle
    /\ AggregatorIdle

Next ==
    \/ KeepNonCandidate
    \/ CropLine
    \/ CropRaises
    \/ RunTesseract(TesseractRuns(PageOutputs))
    \/ Arbitrate
    \/ FinishPage

Spec == Init /\ [][Next]_vars

(***************************************************************************)
(* The loop over one candidate line, for all the primary and secondary     *)
(* texts of a vocabulary and a range of thresholds                         *)
(***************************************************************************)

PrimaryChunks ==
    {<<"TIB_BA", "TIB_KA", "TIB_ACHUNG", "TIB_TSHEG">>, <<" ">>, <<"g", "a", "n">>,
     <<"g", "a", "n_dot">>, <<" ", "p", "o">>, <<"$">>}

SecondaryChunks ==
    {<<"TIB_BA", "TIB_KA", "TIB_ACHUNG", "TIB_TSHEG">>, <<" ">>, <<"g", "a", "n">>,
     <<"g", "a", "n_dot">>, <<" ", "p", "o">>, <<"a_macron">>}

\* the largest number of chunks of a primary and of a secondary text
MaxPrimaryChunks == 2
MaxSecondaryChunks == 2

\* the triples of thresholds tried, in hundredths
ArbiterThresholds ==
    {DefaultThresholds, <<0, 0, 0>>, <<100, 100, 100>>, <<50, 60, 70>>, <<85, 50, 0>>,
     <<85, 50, 90>>}

InitArbiter ==
    /\ pc = "line"
    /\ error = ""
    /\ \E t \in ArbiterThresholds : args = Args(t, "heuristic", <<"raw">>, <<7>>, <<7>>)
    /\ \E t \in Texts(PrimaryChunks, MaxPrimaryChunks) :
          /\ line_is_candidate(normalize_text(t))
          /\ lines = <<[bbox |-> <<2, 2, 9, 5>>, text |-> normalize_text(t)]>>
    /\ idx = 1
    /\ procs = <<>>
    /\ b_candidates = <<>>
    /\ raw_final_lines = <<>>
    /\ page_audit_meta = <<>>
    /\ page_candidates = 0
    /\ page_replaced = 0
    /\ merged_lines = <<>>
    /\ SinglePage
    /\ ProbeIdle
    /\ ApproveIdle
    /\ AggregatorIdle

\* the secondary reads that return one of the secondary texts
SecondaryRuns ==
    {[kind |-> "exit", returncode |-> 0, stdout |-> out] :
        out \in Texts(SecondaryChunks, MaxSecondaryChunks)}

NextArbiter ==
    \/ CropLine
    \/ RunTesseract(SecondaryRuns)
    \/ Arbitrate

SpecArbiter == InitArbiter /\ [][NextArbiter]_vars

(***************************************************************************)
(* The loop over one candidate line with two reads, one of each crop       *)
(* variant: the Candidate Selector over lists of two candidates            *)
(***************************************************************************)

\* the primary texts: the primary read knows German and Tibetan only (--lang-a deu+bod),
\* so that none of them holds Devanagari
SelectorPrimaries ==
    {<<"TIB_BA", "TIB_KA", "TIB_ACHUNG", "TIB_TSHEG", " ", "g", "a", "n", "=">>,
     <<"TIB_BA", "TIB_KA", "TIB_ACHUNG", "TIB_TSHEG", " ", "g", "a", "n", " ", "p", "o">>,
     <<"g", "a", "n_dot">>}

\* what a secondary read prints: Tibetan headwords with clean and with noisy tails, a
\* text without its Tibetan script, a text with Devanagari, a long text with nothing
\* in common with the primaries
SelectorOutputs ==
    {<<"TIB_BA", "TIB_KA", "TIB_ACHUNG", "TIB_TSHEG", " ", "g", "a", "n", "=">>,
     <<"TIB_BA", "TIB_KA", "TIB_ACHUNG", "TIB_TSHEG", " ", "g", "a", "n">>,
     <<"TIB_BA", "TIB_KA", "TIB_ACHUNG", "TIB_TSHEG", " ", "g", "a", "n", " ", "p", "o", "=">>,
     <<"g", "a", "n_dot">>,
     <<"DEV_KA", " ", "g", "a", "n_dot">>,
     <<"p", "o", " ", "p", "o", " ", "p", "o">>}

\* the secondary reads: out of time, or one of the outputs, which may be empty
SelectorRuns ==
    {[kind |-> "timeout", returncode |-> 0, stdout |-> <<>>]}
    \cup {[kind |-> "exit", returncode |-> 0, stdout |-> out] : out \in SelectorOutputs \cup {<<>>}}

InitSelector ==
    /\ pc = "line"
    /\ error = ""
    /\ args = Args(DefaultThresholds, "heuristic", <<"raw", "auto">>, <<7>>, <<7>>)
    /\ \E t \in SelectorPrimaries : lines = <<[bbox |-> <<2, 2, 9, 5>>, text |-> normalize_text(t)]>>
    /\ idx = 1
    /\ procs = <<>>
    /\ b_candidates = <<>>
    /\ raw_final_lines = <<>>
    /\ page_audit_meta = <<>>
    /\ page_candidates = 0
    /\ page_replaced = 0
    /\ merged_lines = <<>>
    /\ SinglePage
    /\ ProbeIdle
    /\ ApproveIdle
    /\ AggregatorIdle

NextSelector ==
    \/ CropLine
    \/ RunTesseract(SelectorRuns)
    \/ Arbitrate

SpecSelector == InitSelector /\ [][NextSelector]_vars

(***************************************************************************)
(* The loop over one candidate line whose primary text holds characters    *)
(* that OCR confuses ('I' for 'l', '$' for 'ś'), the secondary reads       *)
(* being the same text with some of them put right                         *)
(***************************************************************************)

\* 'Ita Iha śa gan po gan po gan po gan po', 'Ita śa gan po', 'Iha ña gan po'
ConfusablePrimaries ==
    {<<"I", "t", "a", " ", "I", "h", "a", " ", "s_acute", "a", " ", "g", "a", "n", " ", "p", "o", " ", "g", "a", "n", " ", "p", "o", " ", "g", "a", "n", " ", "p", "o", " ", "g", "a", "n", " ", "p", "o">>,
     <<"I", "t", "a", " ", "s_acute", "a", " ", "g", "a", "n", " ", "p", "o">>,
     <<"I", "h", "a", " ", "n_tilde", "a", " ", "g", "a", "n", " ", "p", "o">>}

\* 'lta lha $a gan po gan po gan po gan po', 'lta lha śa gan po gan po gan po gan po', 'lta śa gan po', 'lta $a gan po', 'lha ña gan po', 'Ita śa gan po'
ConfusableOutputs ==
    {<<"l", "t", "a", " ", "l", "h", "a", " ", "$", "a", " ", "g", "a", "n", " ", "p", "o", " ", "g", "a", "n", " ", "p", "o", " ", "g", "a", "n", " ", "p", "o", " ", "g", "a", "n", " ", "p", "o">>,
     <<"l", "t", "a", " ", "l", "h", "a", " ", "s_acute", "a", " ", "g", "a", "n", " ", "p", "o", " ", "g", "a", "n", " ", "p", "o", " ", "g", "a", "n", " ", "p", "o", " ", "g", "a", "n", " ", "p", "o">>,
     <<"l", "t", "a", " ", "s_acute", "a", " ", "g", "a", "n", " ", "p", "o">>,
     <<"l", "t", "a", " ", "$", "a", " ", "g", "a", "n", " ", "p", "o">>,
     <<"l", "h", "a", " ", "n_tilde", "a", " ", "g", "a", "n", " ", "p", "o">>,
     <<"I", "t", "a", " ", "s_acute", "a", " ", "g", "a", "n", " ", "p", "o">>}

ConfusableRuns ==
    {[kind |-> "exit", returncode |-> 0, stdout |-> out] : out \in ConfusableOutputs \cup {<<>>}}

InitConfusable ==
    /\ pc = "line"
    /\ error = ""
    /\ \E t \in ArbiterThresholds : args = Args(t, "heuristic", <<"raw">>, <<7>>, <<7>>)
    /\ \E t \in ConfusablePrimaries : lines = <<[bbox |-> <<2, 2, 9, 5>>, text |-> normalize_text(t)]>>
    /\ idx = 1
    /\ procs = <<>>
    /\ b_candidates = <<>>
    /\ raw_final_lines = <<>>
    /\ page_audit_meta = <<>>
    /\ page_candidates = 0
    /\ page_replaced = 0
    /\ merged_lines = <<>>
    /\ SinglePage
    /\ ProbeIdle
    /\ ApproveIdle
    /\ AggregatorIdle

NextConfusable ==
    \/ CropLine
    \/ RunTesseract(ConfusableRuns)
    \/ Arbitrate

SpecConfusable == InitConfusable /\ [][NextConfusable]_vars

(***************************************************************************)
(* The Token Normalizer and the Zone Classifier over the pages of a        *)
(* vocabulary of lines: the loop of main with secondary reads that all     *)
(* run out of time, so that every line keeps its primary text, then        *)
(* post_cleanup_contextual over the page, applied once more to its own     *)
(* output, and line_zones over the lines                                   *)
(***************************************************************************)

NormalizerTexts ==
    {<<"TIB_BA", "TIB_KA", "TIB_ACHUNG", " ", "g", "a", "n", " ", "TIB_BA", "TIB_KA", "TIB_ACHUNG", "TIB_TSHEG", " ", "f", "o", "o">>,
     <<"TIB_GA", "TIB_NGA", " ", "g", "a_uml", "n", " ", "f", "o", "o">>,
     <<"W", "o", "r", "t", " ", "=", " ", "u_uml", "b", "e", "r", " ", "a", "l", "l", "e", "s">>,
     <<"TIB_BA", "TIB_KA", "TIB_ACHUNG", "TIB_TSHEG", " ", "g", "a", "n">>,
     <<"g", "a", "n_dot", " ", "p", "o">>,
     <<"d", "a", "s", " ", "W", "o", "r", "t">>,
     <<"TIB_BA", "TIB_KA", "TIB_ACHUNG", " ", "1", "2">>,
     <<"I", "$", "a", " ", "=", " ", "1">>,
     <<"TIB_GA", "TIB_NGA", " ", "g", "a", "n">>,
     <<"s", "k", "t", ".", " ", "g", "a_uml", "n">>,
     <<"S", "c", "h", "m", "i", "d", "t", " ", "1", "9", "9", "8", ",", " ", "p", "p", ".", " ", "4", "5", "endash", "5", "0">>,
     <<"G", "u_uml", "n", "t", "h", "e", "r", " ", "1", "9", "9", "8", ",", " ", "p", "p", ".", "4", "5">>,
     <<"TIB_BA", "TIB_KA", "TIB_ACHUNG", "TIB_TSHEG", " ", "g", "a", "n_tilde", ".">>,
     <<"TIB_BA", "TIB_KA", "TIB_ACHUNG", "TIB_TSHEG", " ", "n_tilde", "i", " ", "g", "a", "n_tilde">>,
     <<"TIB_GA", "TIB_NGA", " ", "g", "a", "n", " ", "1", "2", " ", "p", "o">>}

NormalizerLines == {[bbox |-> <<2, 2, 9, 5>>, text |-> normalize_text(t)] : t \in NormalizerTexts}

\* the secondary reads that run out of time
TimedOutRuns == {[kind |-> "timeout", returncode |-> 0, stdout |-> <<>>]}

\* post_cleanup_contextual over its own output, the neighbouring lines at their
\* normalized values
Renormalize ==
    /\ pc = "done"
    /\ renormalized = <<>>
    /\ renormalized' = AsSeq([i \in 1..Len(merged_lines) |->
                                post_cleanup_contextual(merged_lines, i, merged_lines[i])])
    /\ UNCHANGED <<pc, error, pilotVars, zones, approveVars, aggregatorVars>>

\* line_zones over the normalized lines of the page, as classify_block_context calls it
ClassifyLines ==
    /\ pc = "done"
    /\ zones = <<>>
    /\ zones' = AsSeq([i \in 1..Len(raw_final_lines) |->
                        line_zones(normalize_text(raw_final_lines[i]))])
    /\ UNCHANGED <<pc, error, pilotVars, renormalized, approveVars, aggregatorVars>>

InitNormalizer ==
    /\ pc = "line"
    /\ error = ""
    /\ args = Args(DefaultThresholds, "heuristic", <<"raw">>, <<7>>, <<7>>)
    /\ lines \in Pages(NormalizerLines, MaxLines) \ {<<>>}
    /\ idx = 1
    /\ procs = <<>>
    /\ b_candidates = <<>>
    /\ raw_final_lines = <<>>
    /\ page_audit_meta = <<>>
    /\ page_candidates = 0
    /\ page_replaced = 0
    /\ merged_lines = <<>>
    /\ SinglePage
    /\ ProbeIdle
    /\ ApproveIdle
    /\ AggregatorIdle

NextNormalizer ==
    \/ KeepNonCandidate
    \/ CropLine
    \/ RunTesseract(TimedOutRuns)
    \/ Arbitrate
    \/ FinishPage
    \/ Renormalize
    \/ ClassifyLines

SpecNormalizer == InitNormalizer /\ [][NextNormalizer]_vars

(***************************************************************************)
(* apply_approved_rewrites.py: main.  The files of the output directory    *)
(* are the record written: files holds <<kind, k>> for every file written, *)
(* the other fields what the files hold (the detail rows without their     *)
(* order).                                                                 *)
(***************************************************************************)

RequiredColumns == {"from_token", "to_token"}

\* load_rewrites raises SystemExit on a table without the two required columns
MissingColumns ==
    /\ pc = "load"
    /\ ~(RequiredColumns \subseteq approved.fieldnames)
    /\ pc' = "failed"
    /\ error' = "SystemExit: missing required columns"
    /\ UNCHANGED <<pilotVars, probeVars, approveVars, aggregatorVars>>

\* rewrites, conflicts = load_rewrites(approved_path)
LoadRewrites ==
    /\ pc = "load"
    /\ RequiredColumns \subseteq approved.fieldnames
    /\ rewrites' = load_rewrites(approved.rows).rewrites
    /\ conflicts' = load_rewrites(approved.rows).conflicts
    /\ pc' = "loaded"
    /\ UNCHANGED <<error, approved, inputs, written, pilotVars, probeVars, aggregatorVars>>

\* "if conflicts": rewrite_conflicts.tsv is written and SystemExit raised
FailOnConflicts ==
    /\ pc = "loaded"
    /\ conflicts # <<>>
    /\ written' = [written EXCEPT !.files = @ \cup {<<"rewrite_conflicts", 0>>},
                                   !.conflicts = conflicts]
    /\ pc' = "failed"
    /\ error' = "SystemExit: Conflicting approved rewrites found"
    /\ UNCHANGED <<approved, rewrites, conflicts, inputs, pilotVars, probeVars, aggregatorVars>>

\* no conflicts: apply_summary.tsv is opened and its header written
OpenSummary ==
    /\ pc = "loaded"
    /\ conflicts = <<>>
    /\ written' = [written EXCEPT !.files = @ \cup {<<"apply_summary", 0>>}]
    /\ pc' = "apply"
    /\ UNCHANGED <<error, approved, rewrites, conflicts, inputs, pilotVars, probeVars, aggregatorVars>>

\* one pass of the loop over the inputs: apply_text, the output file, the summary row
ApplyInput ==
    /\ pc = "apply"
    /\ Len(written.outputs) < Len(inputs)
    /\ With(Len(written.outputs) + 1, LAMBDA k :
       With(apply_text(inputs[Len(written.outputs) + 1], rewrites), LAMBDA r :
           written' = [written EXCEPT
               !.files = @ \cup {<<"output", k>>},
               !.outputs = Append(@, r.text),
               !.summary = Append(@, <<k, Len(r.replaced),
                                       Cardinality({r.replaced[i] : i \in DOMAIN r.replaced})>>)]))
    /\ UNCHANGED <<pc, error, approved, rewrites, conflicts, inputs, pilotVars, probeVars, aggregatorVars>>

\* the pairs apply_text replaced in the inputs 1..n, in their order
RECURSIVE ReplacedIn(_)
ReplacedIn(n) ==
    IF n = 0 THEN <<>> ELSE ReplacedIn(n - 1) \o apply_text(inputs[n], rewrites).replaced

\* after the loop: apply_replacements_detail.tsv from global_counts
FinishApply ==
    /\ pc = "apply"
    /\ Len(written.outputs) = Len(inputs)
    /\ With(ReplacedIn(Len(inputs)), LAMBDA all :
           written' = [written EXCEPT
               !.files = @ \cup {<<"apply_replacements_detail", 0>>},
               !.detail = {<<p[1], p[2], Cardinality({i \in DOMAIN all : all[i] = p})>> :
                              p \in {all[i] : i \in DOMAIN all}}])
    /\ pc' = "applied"
    /\ UNCHANGED <<error, approved, rewrites, conflicts, inputs, pilotVars, probeVars, aggregatorVars>>

\* the cells of the approved table and the input texts
ApproveTokens ==
    {<<"g", "a", "n">>,
     <<"g", "a", "n_dot">>,
     <<"g", "a", "n_tilde", " ">>,
     <<>>}

ApproveTexts ==
    {<<"g", "a", "n", " ", "p", "o", " ", "g", "a", "n_dot">>,
     <<"TIB_GA", "TIB_NA", " ", "g", "a", "n", "NL", "g", "a", "n", " ", "p", "o">>,
     <<"G", "a", "n", " ", "g", "a", "n", "-", "p", "o", "FF", "g", "a", "n">>}

\* the largest number of rows of the approved table and of input files
MaxRows == 2
MaxInputs == 1

ApproveRows == {[from_token |-> f, to_token |-> t] : f \in ApproveTokens, t \in ApproveTokens}

InitApprove ==
    /\ pc = "load"
    /\ error = ""
    /\ PilotIdle
    /\ ProbeIdle
    /\ approved \in {[fieldnames |-> RequiredColumns, rows |-> r] : r \in Pages(ApproveRows, MaxRows)}
                     \cup {[fieldnames |-> {"from_token"}, rows |-> <<>>]}
    /\ rewrites = {}
    /\ conflicts = <<>>
    /\ inputs \in Pages(ApproveTexts, MaxInputs) \ {<<>>}
    /\ written = NothingWritten
    /\ AggregatorIdle

NextApprove ==
    \/ MissingColumns
    \/ LoadRewrites
    \/ FailOnConflicts
    \/ OpenSummary
    \/ ApplyInput
    \/ FinishApply

SpecApprove == InitApprove /\ [][NextApprove]_vars

(***************************************************************************)
(* ng_dot_candidate_report.py and token_variant_report.py: main.  Each     *)
(* program reads the lines of the corpus one by one and then writes its    *)
(* tables; the two programs run independently of each other over the same  *)
(* corpus.                                                                 *)
(***************************************************************************)

\* ng_dot_candidate_report.py, the body of "for raw in f"
NgReadLine ==
    /\ pc = "aggregate"
    /\ ng_idx <= Len(corpus)
    /\ stats' = NgAddLine(stats, corpus[ng_idx])
    /\ ng_idx' = ng_idx + 1
    /\ UNCHANGED <<pc, error, corpus, ng_args, ng_report, tv_args, tv_idx, groups, tv_reports>>
    /\ UNCHANGED <<pilotVars, probeVars, approveVars>>

\* ng_dot_candidate_report.py, "with args.out.open": the table is written
NgWriteReport ==
    /\ pc = "aggregate"
    /\ ng_idx > Len(corpus)
    /\ ng_report = <<>>
    /\ ng_report' = <<NgRows(stats, ng_args)>>
    /\ UNCHANGED <<pc, error, corpus, ng_args, ng_idx, stats, tv_args, tv_idx, groups, tv_reports>>
    /\ UNCHANGED <<pilotVars, probeVars, approveVars>>

\* token_variant_report.py, the body of "for raw in f"
TvReadLine ==
    /\ pc = "aggregate"
    /\ tv_idx <= Len(corpus)
    /\ groups' = TvAddLine(groups, corpus[tv_idx])
    /\ tv_idx' = tv_idx + 1
    /\ UNCHANGED <<pc, error, corpus, ng_args, ng_idx, stats, ng_report, tv_args, tv_reports>>
    /\ UNCHANGED <<pilotVars, probeVars, approveVars>>

\* token_variant_report.py: conservative_rewrite_candidates.tsv and
\* manual_review_candidates.tsv are written
TvWriteReports ==
    /\ pc = "aggregate"
    /\ tv_idx > Len(corpus)
    /\ tv_reports = <<>>
    /\ tv_reports' = <<TvRows(groups, tv_args, RewriteRows), TvRows(groups, tv_args, ReviewRows)>>
    /\ UNCHANGED <<pc, error, corpus, ng_args, ng_idx, stats, ng_report, tv_args, tv_idx, groups>>
    /\ UNCHANGED <<pilotVars, probeVars, approveVars>>

\* the lines of the corpora: 'གང gan gan gaṅ', 'གང gaṅ', 'ཉ gañ gan',
\* 'Iha lha lha lha' and 'གང kha kha kha khā'
CorpusLines ==
    {<<"TIB_GA", "TIB_NGA", " ", "g", "a", "n", " ", "g", "a", "n", " ", "g", "a", "n_dot">>,
     <<"TIB_GA", "TIB_NGA", " ", "g", "a", "n_dot">>,
     <<"TIB_NYA", " ", "g", "a", "n_tilde", " ", "g", "a", "n">>,
     <<"I", "h", "a", " ", "l", "h", "a", " ", "l", "h", "a", " ", "l", "h", "a">>,
     <<"TIB_GA", "TIB_NGA", " ", "k", "h", "a", " ", "k", "h", "a", " ", "k", "h", "a", " ",
       "k", "h", "a_macron">>,
     <<"k", "h", "a_macron", " ", "k", "h", "a_uml", " ", "k", "h", "a_uml", " ", "k", "h", "a_uml">>}

MaxCorpusLines == 2

\* a lower floor than the default, which the corpora reach
LowMinGroupTotal == 2

InitAggregator ==
    /\ pc = "aggregate"
    /\ error = ""
    /\ PilotIdle
    /\ ProbeIdle
    /\ ApproveIdle
    /\ corpus \in Pages(CorpusLines, MaxCorpusLines)
    /\ ng_args \in {NgArgs(m, mode) : m \in {LowMinGroupTotal, NgDefaultMinGroupTotal}, mode \in {"general", "n_to_dot_only"}}
    /\ ng_idx = 1
    /\ stats = <<>>
    /\ ng_report = <<>>
    /\ tv_args \in {TvArgs(m) : m \in {LowMinGroupTotal, TvDefaultMinGroupTotal}}
    /\ tv_idx = 1
    /\ groups = <<>>
    /\ tv_reports = <<>>

NextAggregator ==
    \/ NgReadLine
    \/ NgWriteReport
    \/ TvReadLine
    \/ TvWriteReports

SpecAggregator == InitAggregator /\ [][NextAggregator]_vars
(***************************************************************************)
(* line_anchor_merge_pilot.py: main over the pages of a run, up to the     *)
(* merged file                                                             *)
(***************************************************************************)

\* sorted(S) for a set of integers
RECURSIVE Sorted(_)
Sorted(S) == IF S = {} THEN <<>> ELSE <<Min(S)>> \o Sorted(S \ {Min(S)})

\* parse_pages_arg: parts is the option split at the commas, a part "a-b" is <<a, b>> and
\* a part "a" is <<a, a>>
parse_pages_arg(parts) ==
    Sorted(UNION {With(parts[k], LAMBDA part :
                      IF part[2] < part[1] THEN part[2]..part[1] ELSE part[1]..part[2])
                  : k \in 1..Len(parts)})

\* "\n\n<<<PAGE_BREAK>>>\n\n"
PAGE_BREAK_MARKER ==
    <<"NL", "NL", "<", "<", "<", "P", "A", "G", "E", "_", "B", "R", "E", "A", "K", ">", ">", ">",
      "NL", "NL">>

\* page_sep of main
PageSep(a) == IF a.page_separator = "formfeed" THEN <<"FF">> ELSE PAGE_BREAK_MARKER

\* the head of the loop over the pages: the lines of the next page are parsed and the
\* counters and lists of the page start empty
ReadPage(pageSet) ==
    /\ pc = "page"
    /\ page_no' = page_no + 1
    /\ lines' \in pageSet
    /\ idx' = 1
    /\ raw_final_lines' = <<>>
    /\ page_audit_meta' = <<>>
    /\ page_candidates' = 0
    /\ page_replaced' = 0
    /\ pc' = "line"
    /\ UNCHANGED <<error, args, procs, b_candidates, merged_lines, pages, merged_pages,
                   merged_out>>
    /\ UNCHANGED <<probeVars, approveVars, aggregatorVars>>

\* after the last page: merged_out.write_text(page_sep.join(merged_pages))
WriteMerged ==
    /\ pc = "done"
    /\ merged_out' = JoinWith(PageSep(args), merged_pages)
    /\ pc' = "written"
    /\ UNCHANGED <<error, args, lines, idx, procs, b_candidates, raw_final_lines,
                   page_audit_meta, page_candidates, page_replaced, merged_lines, pages,
                   page_no, merged_pages>>
    /\ UNCHANGED <<probeVars, approveVars, aggregatorVars>>

\* the number of pages of the PDF
PdfPages == 3

\* the option --pages of the runs
PagesArgs ==
    {<<<<1, 1>>>>, <<<<3, 3>>, <<1, 1>>>>, <<<<3, 2>>>>, <<<<2, 2>>, <<1, 2>>>>, <<<<2, 5>>>>}

\* the pages of the PDF as parse_hocr_lines returns them: a blank page, pages with a line
\* without text, pages with candidate lines: one that the secondary reads cannot improve,
\* one without a space after the headword
DocumentTexts ==
    {<<>>,
     <<"d", "a", "s", " ", "W", "o", "r", "t">>,
     <<"TIB_BA", "TIB_KA", "TIB_ACHUNG", "TIB_TSHEG", " ", "g", "a", "n_dot", " ", "p", "o">>,
     <<"TIB_BA", "TIB_KA", "TIB_ACHUNG", "TIB_TSHEG", "g", "a", "n", " ", "p", "o">>}

DocumentPages ==
    {<<>>} \cup {<<[bbox |-> <<2, 2, 9, 5>>, text |-> t]>> : t \in DocumentTexts}
    \cup {<<[bbox |-> <<2, 2, 9, 5>>, text |-> t], [bbox |-> <<2, 6, 9, 9>>, text |-> <<>>]>>
          : t \in DocumentTexts \ {<<>>}}

\* what the secondary reads print: the line, broken in two, with and without its headword
DocumentOutputs ==
    {<<"TIB_BA", "TIB_KA", "TIB_ACHUNG", "TIB_TSHEG", " ", "g", "a", "n_dot", "NL", "p", "o",
       "NL", "FF">>,
     <<"g", "a", "n_dot", "NL", "p", "o">>}

InitDocument ==
    /\ pc = "line"
    /\ error = ""
    /\ \E sep \in {"formfeed", "marker"} :
          args = [Args(DefaultThresholds, "heuristic", <<"raw">>, <<7>>, <<7>>)
                     EXCEPT !.page_separator = sep]
    /\ \E arg \in PagesArgs :
          pages = SelectSeq(parse_pages_arg(arg), LAMBDA p : 1 <= p /\ p <= PdfPages)
    /\ page_no = 1
    /\ lines \in DocumentPages
    /\ idx = 1
    /\ procs = <<>>
    /\ b_candidates = <<>>
    /\ raw_final_lines = <<>>
    /\ page_audit_meta = <<>>
    /\ page_candidates = 0
    /\ page_replaced = 0
    /\ merged_lines = <<>>
    /\ merged_pages = <<>>
    /\ merged_out = <<>>
    /\ ProbeIdle
    /\ ApproveIdle
    /\ AggregatorIdle

NextDocument ==
    \/ KeepNonCandidate
    \/ CropLine
    \/ RunTesseract(TesseractRuns(DocumentOutputs))
    \/ Arbitrate
    \/ FinishPage
    \/ ReadPage(DocumentPages)
    \/ WriteMerged

SpecDocument == InitDocument /\ [][NextDocument]_vars


(***************************************************************************)
(* Properties of the Replacement Arbiter                                   *)
(***************************************************************************)

SpliceReason == "replace_splice_tibetan_prefix_b_tail"

\* the Tibetan headword prefix of a line, without the whitespace that ends it
TibetanPrefix(s) == RStrip(split_tibetan_prefix_tail(s)[1])

\* the audit row of the line that was arbitrated last, when it is a candidate's
LastIsCandidate ==
    /\ pc = "line"
    /\ page_audit_meta # <<>>
    /\ page_audit_meta[Len(page_audit_meta)].candidate = 1

\* C1: script preservation.  For every candidate line whose primary text holds
\* Tibetan-script characters, the text the Arbiter chose (should_replace, then the
\* splice) holds Tibetan-script characters too; and when the splice is the outcome, the
\* output begins with the Tibetan prefix of the primary, character for character, the
\* rest of it holds no Tibetan script, and the Tibetan prefixes of the two are equal.
C1_ScriptPreservation ==
    \A k \in 1..Len(page_audit_meta) :
        LET row == page_audit_meta[k]
            final == raw_final_lines[k]
            prefix == split_tibetan_prefix_tail(row.a_text)[1]
        IN  (row.candidate = 1 /\ HasAny(row.a_text, TIB_CHARS)) =>
               /\ HasAny(final, TIB_CHARS)
               /\ row.reason = SpliceReason =>
                     /\ HasAny(prefix, TIB_CHARS)
                     /\ SubSeq(final, 1, Len(prefix)) = prefix
                     /\ ~HasAny(From(final, Len(prefix) + 1), TIB_CHARS)
                     /\ TibetanPrefix(final) = TibetanPrefix(row.a_text)

\* a line with Tibetan script was spliced: the output is the primary's Tibetan prefix,
\* a joining space that the primary does not have, and the tail of the secondary
C1_SplicedKeepsPrefix ==
    \E k \in 1..Len(page_audit_meta) :
        /\ page_audit_meta[k].reason = SpliceReason
        /\ HasAny(page_audit_meta[k].a_text, TIB_CHARS)
        /\ split_tibetan_prefix_tail(page_audit_meta[k].a_text)[1]
              # split_tibetan_prefix_tail(raw_final_lines[k])[1]

\* C4: length-ratio guard.  The line arbitrated last: if should_replace accepted the
\* secondary text, the lengths of the normalized texts satisfy
\* 0.5 <= len(secondary) / len(primary) <= 1.8; if the splice was accepted, the
\* secondary tail and the primary's tail after its Tibetan prefix satisfy
\* 0.55 <= len(secondary tail) / len(primary tail) <= 1.8.  This holds for every
\* triple of thresholds.
C4_LengthRatioGuard ==
    LastIsCandidate =>
        LET row == page_audit_meta[Len(page_audit_meta)]
            secondary == choose_best_b_text(row.a_text, b_candidates)[2]
            la == Len(normalize_text(row.a_text))
            lb == Len(normalize_text(secondary))
            ltail == Len(split_tibetan_prefix_tail(row.a_text)[2])
        IN  /\ (row.replaced = 1 /\ row.reason # SpliceReason) =>
                 la > 0 /\ 2 * lb >= la /\ 5 * lb <= 9 * la
            /\ row.reason = SpliceReason =>
                 ltail > 0 /\ 20 * lb >= 11 * ltail /\ 5 * lb <= 9 * ltail

\* an accepted replacement at the lower limit: the secondary is half as long as the primary
C4_AcceptedAtHalfLength ==
    /\ LastIsCandidate
    /\ page_audit_meta[Len(page_audit_meta)].replaced = 1
    /\ page_audit_meta[Len(page_audit_meta)].reason # SpliceReason
    /\ 2 * Len(normalize_text(page_audit_meta[Len(page_audit_meta)].b_text))
          = Len(normalize_text(page_audit_meta[Len(page_audit_meta)].a_text))

\* C5 as stated: every replacement accepted with reason replace, replace_diacritic_only
\* or replace_tibetan_anchor has at least as many diacritic characters as the primary.
C5_DiacriticGainAllReasons ==
    \A k \in 1..Len(page_audit_meta) :
        (/\ page_audit_meta[k].replaced = 1
         /\ page_audit_meta[k].reason \in {"replace", "replace_diacritic_only",
                                            "replace_tibetan_anchor"}) =>
            Count(raw_final_lines[k], DIACRITIC_CHARS)
               >= Count(page_audit_meta[k].a_text, DIACRITIC_CHARS)

\* C5 amended: every replacement accepted with reason replace or replace_tibetan_anchor
\* has at least as many diacritic characters as the primary, and so has one accepted
\* with reason replace_diacritic_only when the secondary was read with more diacritic
\* characters than the primary has
C5_DiacriticGain ==
    \A k \in 1..Len(page_audit_meta) :
        (/\ page_audit_meta[k].replaced = 1
         /\ \/ page_audit_meta[k].reason \in {"replace", "replace_tibetan_anchor"}
            \/ /\ page_audit_meta[k].reason = "replace_diacritic_only"
               /\ page_audit_meta[k].b_diacritics > page_audit_meta[k].a_diacritics) =>
            Count(raw_final_lines[k], DIACRITIC_CHARS)
               >= Count(page_audit_meta[k].a_text, DIACRITIC_CHARS)

C5_ReplacedWithGain ==
    \E k \in 1..Len(page_audit_meta) :
        /\ page_audit_meta[k].replaced = 1
        /\ page_audit_meta[k].reason = "replace_tibetan_anchor"
        /\ Count(raw_final_lines[k], DIACRITIC_CHARS)
              > Count(page_audit_meta[k].a_text, DIACRITIC_CHARS)

\* the conditions of a splice on the line arbitrated last: should_replace rejected the
\* selected secondary with lost_tibetan_script, the secondary holds no Tibetan script,
\* 0.55 <= len(secondary tail) / len(primary tail) <= 1.8, the similarity of the tails is
\* at least the Tibetan-anchor threshold, and the secondary tail has fewer suspect symbols
\* or more diacritic characters than the primary tail
SpliceConditions(a_text, secondary) ==
    LET a_tail == split_tibetan_prefix_tail(a_text)[2]
        b_tail == normalize_text(secondary)
        d == should_replace(a_text, secondary, args.min_similarity,
                            args.min_similarity_diacritic_only,
                            args.min_similarity_tibetan_anchor)
    IN  /\ ~d.use_b /\ d.reason = "lost_tibetan_script"
        /\ ~HasAny(secondary, TIB_CHARS)
        /\ Len(a_tail) > 0
        /\ 20 * Len(b_tail) >= 11 * Len(a_tail) /\ 5 * Len(b_tail) <= 9 * Len(a_tail)
        /\ FracGe(SequenceMatcherRatio(base_equivalent_for_merge(a_tail),
                                       base_equivalent_for_merge(b_tail)),
                  args.min_similarity_tibetan_anchor)
        /\ \/ Count(b_tail, ROMAN_TAIL_SUSPECT_CHARS) < Count(a_tail, ROMAN_TAIL_SUSPECT_CHARS)
           \/ Count(b_tail, DIACRITIC_CHARS) > Count(a_tail, DIACRITIC_CHARS)

\* C13 as stated: a spliced final text is produced only under the conditions of a splice,
\* and it is exactly the primary's Tibetan prefix followed by the secondary's tail.
C13_SpliceIsPrefixThenTail ==
    (LastIsCandidate /\ page_audit_meta[Len(page_audit_meta)].reason = SpliceReason) =>
        LET row == page_audit_meta[Len(page_audit_meta)]
            secondary == choose_best_b_text(row.a_text, b_candidates)[2]
        IN  /\ SpliceConditions(row.a_text, secondary)
            /\ raw_final_lines[Len(raw_final_lines)]
                  = split_tibetan_prefix_tail(row.a_text)[1] \o normalize_text(secondary)

\* C13 amended: a spliced final text is produced only under the conditions of a splice,
\* and it is the primary's Tibetan prefix followed by the secondary's tail, with one
\* space between the two when the prefix does not end with a space.
C13_SpliceIsPrefixJoinedToTail ==
    (LastIsCandidate /\ page_audit_meta[Len(page_audit_meta)].reason = SpliceReason) =>
        LET row == page_audit_meta[Len(page_audit_meta)]
            secondary == choose_best_b_text(row.a_text, b_candidates)[2]
            prefix == split_tibetan_prefix_tail(row.a_text)[1]
            final == raw_final_lines[Len(raw_final_lines)]
        IN  /\ SpliceConditions(row.a_text, secondary)
            /\ prefix # <<>>
            /\ final = prefix \o (IF prefix[Len(prefix)] = " " THEN <<>> ELSE <<" ">>)
                              \o normalize_text(secondary)

\* a line was spliced and a space joins the primary's Tibetan prefix to the secondary's
\* tail, which has more diacritic characters than the primary's tail
C13_SplicedWithJoiningSpace ==
    /\ LastIsCandidate
    /\ page_audit_meta[Len(page_audit_meta)].reason = SpliceReason
    /\ page_audit_meta[Len(page_audit_meta)].replaced = 1
    /\ raw_final_lines[Len(raw_final_lines)]
          = split_tibetan_prefix_tail(page_audit_meta[Len(page_audit_meta)].a_text)[1] \o <<" ">>
               \o normalize_text(choose_best_b_text(page_audit_meta[Len(page_audit_meta)].a_text, b_candidates)[2])
    /\ Count(raw_final_lines[Len(raw_final_lines)], DIACRITIC_CHARS)
          > Count(page_audit_meta[Len(page_audit_meta)].a_text, DIACRITIC_CHARS)

\* C19: for every line of the audit, the lines rejected as empty secondary, unexpected
\* Devanagari or lost Tibetan script and the lines accepted by splice included, the
\* primary-side diacritic count of the record is the number of diacritic characters of the
\* primary text and the secondary-side count the number of those of the recorded
\* secondary text.
C19_AuditCountsMatchTexts ==
    \A k \in 1..Len(page_audit_meta) :
        /\ page_audit_meta[k].a_diacritics = Count(page_audit_meta[k].a_text, DIACRITIC_CHARS)
        /\ page_audit_meta[k].b_diacritics = Count(page_audit_meta[k].b_text, DIACRITIC_CHARS)

\* C20: the Arbiter accepts with reason replace_confusable_gain only when the secondary has
\* exactly as many diacritics as the primary, the similarity is at least 0.92, the two
\* texts are identical after the normalization of OCR-confusable characters, and the
\* secondary has strictly fewer suspect characters than the primary; under this reason it
\* never accepts a secondary with fewer diacritics than the primary.
C20_ConfusableGainKeepsDiacritics ==
    \A k \in 1..Len(page_audit_meta) :
        page_audit_meta[k].reason = "replace_confusable_gain" =>
            /\ Count(normalize_text(page_audit_meta[k].b_text), DIACRITIC_CHARS)
                  = Count(normalize_text(page_audit_meta[k].a_text), DIACRITIC_CHARS)
            /\ FracGe(page_audit_meta[k].similarity, ConfusableGainMin)
            /\ normalize_ocr_confusables(normalize_text(page_audit_meta[k].a_text))
                  = normalize_ocr_confusables(normalize_text(page_audit_meta[k].b_text))
            /\ OcrSuspectCount(normalize_text(page_audit_meta[k].b_text))
                  < OcrSuspectCount(normalize_text(page_audit_meta[k].a_text))

\* C21: for all values of the three similarity thresholds, every acceptance with reason
\* replace_tibetan_anchor has a non-empty Tibetan anchor that is the same in the primary
\* and in the secondary and a similarity at or above the Tibetan-anchor threshold, and
\* every acceptance with reason replace_diacritic_only has a similarity at or above the
\* diacritic-only threshold.
C21_AnchorAndDiacriticOnlyAboveThreshold ==
    \A k \in 1..Len(page_audit_meta) :
        /\ page_audit_meta[k].reason = "replace_tibetan_anchor" =>
              /\ tibetan_anchor_for_merge(normalize_text(page_audit_meta[k].a_text)) # <<>>
              /\ tibetan_anchor_for_merge(normalize_text(page_audit_meta[k].a_text))
                    = tibetan_anchor_for_merge(normalize_text(page_audit_meta[k].b_text))
              /\ FracGe(page_audit_meta[k].similarity, args.min_similarity_tibetan_anchor)
        /\ page_audit_meta[k].reason = "replace_diacritic_only" =>
              FracGe(page_audit_meta[k].similarity, args.min_similarity_diacritic_only)

(***************************************************************************)
(* Claims about the per-line loop of main                                  *)
(***************************************************************************)

CropError == "RuntimeError: Invalid crop box"

FailedRun(proc) == proc.kind = "timeout" \/ proc.returncode # 0

DecisionReasons ==
    {"non_candidate", "empty_b", "unexpected_devanagari", "lost_tibetan_script",
     "length_ratio_out_of_range", "similarity_too_low", "no_diacritic_gain", "replace",
     "replace_diacritic_only", "replace_tibetan_anchor", "replace_confusable_gain",
     "replace_headword_tail_cleanup", SpliceReason}

\* C8: a secondary read that times out or exits with a non-zero status gives the empty
\* text as its candidate and raises nothing: every read of the line has its candidate,
\* the run is never stopped by a read, every line before the current one has its audit
\* row, and once the page is done every line has a row with a decision.
C8_FailedReadIsEmptyCandidate ==
    /\ Len(b_candidates) = Len(procs)
    /\ \A k \in 1..Len(procs) : FailedRun(procs[k]) => b_candidates[k][2] = <<>>
    /\ pc = "aborted" => error = CropError
    /\ pc # "aborted" => Len(page_audit_meta) = idx - 1
    /\ pc = "done" =>
          /\ Len(page_audit_meta) = Len(lines)
          /\ Len(raw_final_lines) = Len(lines)
          /\ \A k \in 1..Len(lines) :
                /\ page_audit_meta[k].line = k
                /\ page_audit_meta[k].reason \in DecisionReasons

\* a page of two lines is done after a read of its first line ran out of time and
\* another one failed with text on its output
C8_PageDoneAfterFailedReads ==
    /\ pc = "done"
    /\ Len(lines) = 2
    /\ page_audit_meta[1].candidate = 1
    /\ page_audit_meta[2].candidate = 0
    /\ \E k \in 1..Len(procs) : procs[k].kind = "timeout"
    /\ \E k \in 1..Len(procs) : procs[k].returncode # 0 /\ procs[k].stdout # <<>>

\* C9: a line whose bounding box clamps to an empty or inverted rectangle is a
\* recoverable error of that line: the run is never stopped by the crop.
C9_MalformedCropIsRecoverable ==
    ~(pc = "aborted" /\ error = CropError)

\* the rows of the audit of the page with the given flag set
RowsWith(Flag(_)) == {k \in 1..Len(page_audit_meta) : Flag(page_audit_meta[k]) = 1}

\* the primary's Tibetan prefix directly followed by the secondary's tail
PrefixThenTail(prefix, tail) == prefix \o tail

\* the primary's Tibetan prefix and the secondary's tail, with one space between the two
\* when the prefix does not end with a space
PrefixJoinedToTail(prefix, tail) ==
    prefix \o (IF prefix # <<>> /\ prefix[Len(prefix)] = " " THEN <<>> ELSE <<" ">>) \o tail

\* the text of line k that goes to the normalizer is the primary text, the text of the
\* selected secondary read, or the two put together by Splice
HandedOver(k, Splice(_, _)) ==
    LET row == page_audit_meta[k]
        final == raw_final_lines[k]
        isLast == k = Len(page_audit_meta) /\ pc \in {"line", "done"}
        prefix == split_tibetan_prefix_tail(row.a_text)[1]
    IN  /\ row.a_text = lines[k].text
        /\ row.replaced \in {0, 1}
        /\ row.replaced = 0 => final = row.a_text
        /\ (row.replaced = 1 /\ row.reason # SpliceReason) =>
              /\ row.candidate = 1
              /\ final = row.b_text
              /\ isLast => /\ final = choose_best_b_text(row.a_text, b_candidates)[2]
                           /\ \E c \in 1..Len(b_candidates) : final = b_candidates[c][2]
        /\ (row.replaced = 1 /\ row.reason = SpliceReason) =>
              /\ row.candidate = 1
              /\ prefix # <<>>
              /\ Len(final) > Len(prefix)
              /\ SubSeq(final, 1, Len(prefix)) = prefix
              /\ isLast => final = Splice(prefix,
                               normalize_text(choose_best_b_text(row.a_text, b_candidates)[2]))
        /\ row.candidate = 0 =>
              /\ row.replaced = 0
              /\ row.reason = "non_candidate"
              /\ row.b_text = <<>>
              /\ row.b_source = <<>>

\* the counters of the page: replaced lines <= candidate lines <= total lines
PageCounters ==
    /\ Len(raw_final_lines) = Len(page_audit_meta)
    /\ page_replaced = Cardinality(RowsWith(LAMBDA row : row.replaced))
    /\ Cardinality(RowsWith(LAMBDA row : row.candidate)) <= page_candidates
    /\ page_replaced <= Cardinality(RowsWith(LAMBDA row : row.candidate))
    /\ page_candidates <= Len(lines)

\* a line that is no candidate has been emitted
NonCandidateEmitted ==
    /\ Len(page_audit_meta') = Len(page_audit_meta) + 1
    /\ page_audit_meta'[Len(page_audit_meta')].candidate = 0

\* the rows of the page so far are as the claim has them with the given Splice
C27Rows(Splice(_, _)) ==
    /\ PageCounters
    /\ \A k \in 1..Len(page_audit_meta) : HandedOver(k, Splice)

\* emitting a line that is no candidate starts no secondary read
NoReadForNonCandidate == NonCandidateEmitted => procs' = procs /\ b_candidates' = b_candidates

\* C27 as stated: the text of a line that goes from the Arbiter to the normalizer is the
\* primary text (replaced 0), the text of the selected secondary read (replaced 1, a reason
\* other than the splice), or the primary's Tibetan prefix followed by the secondary's
\* tail (replaced 1, the reason of the splice); a line that is no candidate is never
\* replaced and starts no secondary read, and on every page
\* replaced lines <= candidate lines <= total lines.
C27_HandedTextIsPrimarySecondaryOrSplice ==
    []C27Rows(PrefixThenTail) /\ [][NoReadForNonCandidate]_vars

\* C27 amended: as above, and the spliced text is the primary's Tibetan prefix and the
\* secondary's tail with one space between the two when the prefix does not end with a
\* space.
C27_HandedTextIsPrimarySecondaryOrJoinedSplice ==
    []C27Rows(PrefixJoinedToTail) /\ [][NoReadForNonCandidate]_vars

\* the second page is done: its first line was replaced by a splice with a joining space
\* and its second line is no candidate and kept its primary text
C27_SplicedThenKept ==
    /\ pc = "done"
    /\ page_no = 2
    /\ Len(page_audit_meta) = 2
    /\ page_audit_meta[1].reason = SpliceReason
    /\ page_audit_meta[1].replaced = 1
    /\ split_tibetan_prefix_tail(lines[1].text)[1] \o <<" ">>
          = SubSeq(raw_final_lines[1], 1, Len(split_tibetan_prefix_tail(lines[1].text)[1]) + 1)
    /\ page_audit_meta[2].candidate = 0
    /\ raw_final_lines[2] = lines[2].text
    /\ page_replaced = 1
    /\ page_candidates = 1

(***************************************************************************)
(* Claims about the Token Normalizer and the Zone Classifier               *)
(***************************************************************************)

\* the Tibetan-script characters of a text, in their order
TibetanOf(s) == SelectSeq(s, LAMBDA c : c \in TIB_CHARS)

\* s is t with some characters left out
RECURSIVE IsSubsequence(_, _)
IsSubsequence(s, t) ==
    IF s = <<>> THEN TRUE
    ELSE IF t = <<>> THEN FALSE
    ELSE IF Head(s) = Head(t) THEN IsSubsequence(Tail(s), Tail(t))
    ELSE IsSubsequence(s, Tail(t))

\* C2: post_cleanup_contextual deletes no Tibetan script: every Tibetan-script
\* character of an arbitrated line is present, in the same order, in the line that
\* post_cleanup_contextual returns for it.
C2_TibetanScriptKept ==
    \A i \in 1..Len(merged_lines) :
        IsSubsequence(TibetanOf(raw_final_lines[i]), TibetanOf(merged_lines[i]))

\* C6: idempotence of normalization: post_cleanup_contextual applied to its own output,
\* the neighbouring lines at their normalized values, returns every line unchanged.
C6_NormalizationIdempotent ==
    renormalized # <<>> => renormalized = merged_lines

\* C7: no cross-zone leakage: a line labelled german_prose that carries no
\* hard-confusable signature ('$', the apostrophe-pa pattern, one of the fixed
\* words) has the same word tokens after post_cleanup_contextual as before.
C7_GermanProseUnchanged ==
    \A i \in 1..Len(merged_lines) :
        (/\ "german_prose" \in line_zones(raw_final_lines[i])
         /\ ~has_explicit_confusable(raw_final_lines[i])) =>
            Words(merged_lines[i]) = Words(raw_final_lines[i])

\* C10: a line without a Latin letter has no zone label other than tibetan.
C10_NoLatinOnlyTibetan ==
    \A i \in 1..Len(zones) :
        ~HasAny(normalize_text(raw_final_lines[i]), LATIN_CHARS) => zones[i] \subseteq {"tibetan"}

\* the line holds a citation marker: one of the abbreviations of BIBLIO_MARKER_RE at the
\* start of a word
HasCitationMarker(s) ==
    \E i \in 1..Len(s) : WordBoundary(s, i) /\ \E mk \in BIBLIO_MARKERS : MatchAtI(s, i, mk)

\* C11: bibliography detection: a line with a Latin letter that holds a citation marker
\* and a four-digit year is labelled bibliography, as is the line
\* 'Schmidt 1998, pp. 45-50' of the spec, whose marker is followed by a space.
C11_MarkerAndYearIsBibliography ==
    \A i \in 1..Len(zones) :
        (/\ HasCitationMarker(raw_final_lines[i])
         /\ \E k \in 1..Len(raw_final_lines[i]) : YearAt(raw_final_lines[i], k)) =>
            "bibliography" \in zones[i]

\* C12: a line labelled bibliography that has no explicit Sanskrit span gets no diacritic
\* from post_cleanup_contextual, whatever the zones of its neighbouring lines: the
\* cleaned line holds no more diacritic characters than the line before the clean-up.
C12_BibliographyGetsNoDiacritic ==
    \A i \in 1..Len(merged_lines) :
        (/\ "bibliography" \in line_zones(raw_final_lines[i])
         /\ sanskrit_marker_ranges(raw_final_lines[i]) = {}) =>
            Count(merged_lines[i], DIACRITIC_CHARS) <= Count(raw_final_lines[i], DIACRITIC_CHARS)

\* the token of s that starts at position p gets the Sanskrit repairs by its own looks or
\* by an explicit Sanskrit span of the line
LooksSanskriticOrInSpan(s, p) ==
    \/ token_looks_sanskritic(SubSeq(s, p, WordEnd(s, p)))
    \/ token_has_translit_cues(SubSeq(s, p, WordEnd(s, p)))
    \/ in_ranges(p, sanskrit_marker_ranges(s))

\* no token of s with an umlaut looks Sanskritic or lies inside an explicit Sanskrit span
NoUmlautTokenPromotable(s) ==
    \A p \in {j \in 1..Len(s) : WordStart(s, j)} :
        HasAny(SubSeq(s, p, WordEnd(s, p)), UMLAUT_CHARS) => ~LooksSanskriticOrInSpan(s, p)

\* C18: umlaut-to-macron promotion is applied to a token only when the token itself looks
\* Sanskritic (a transliteration diacritic, a known Sanskrit substring, an aspirate or
\* retroflex cluster) or lies inside an explicit Sanskrit span: a line none of whose tokens
\* with an umlaut has one of the two properties keeps all its umlauts through
\* post_cleanup_contextual, also when the token sits in the romanization lead after a
\* Tibetan headword and a neighbouring line of the window is Sanskrit-zoned.
C18_UmlautKeptUnlessSanskritic ==
    \A i \in 1..Len(merged_lines) :
        NoUmlautTokenPromotable(raw_final_lines[i]) =>
            Count(merged_lines[i], UMLAUT_CHARS) = Count(raw_final_lines[i], UMLAUT_CHARS)

\* the Latin tail that follows the Tibetan headword of s
LatinTail(s) == split_tibetan_prefix_tail(s)[2]

\* the number of n-tilde of s that stand directly before i or e
TildesBeforeIE(s) == Cardinality({p \in 1..Len(s) : TildeBeforeIEAt(s, p)})

\* C22: palatal and velar nasal: in the Latin tail that follows the Tibetan headword of a
\* line labelled tibetan and romanization, whether or not a token is followed by
\* punctuation, post_cleanup_contextual keeps every n-tilde that stands directly before i
\* or e and rewrites every n-tilde in syllable-final position or before a final s to the
\* dotted n: the tail of the cleaned line has no n-tilde in those two positions.
C22_NoFinalTildeInTail ==
    \A i \in 1..Len(merged_lines) :
        {"tibetan", "romanization"} \subseteq line_zones(raw_final_lines[i]) =>
            /\ TildesBeforeIE(LatinTail(merged_lines[i])) = TildesBeforeIE(LatinTail(raw_final_lines[i]))
            /\ \A p \in 1..Len(LatinTail(merged_lines[i])) :
                  /\ ~TildeSylFinalAt(LatinTail(merged_lines[i]), p)
                  /\ ~TildeBeforeFinalSAt(LatinTail(merged_lines[i]), p)

\* the line that post_cleanup_contextual hands to enforce_ng_from_tibetan_prefix
BeforeEnforceNg(lines_, idx_, s) ==
    drop_roman_tail_noise_after_tibetan(
        RebuildSpans(split_line_spans(DropChars(normalize_text(s), STRAY_SYMBOL_CHARS)),
                     classify_block_context(lines_, idx_)))

\* tok with its final n or ng, which a final s may follow, as the dotted n
FinalNasalDotted(tok) ==
    LET n == Len(tok)
        s == IF n >= 1 /\ tok[n] = "s" THEN <<"s">> ELSE <<>>
        m == n - Len(s)
    IN  IF m >= 2 /\ tok[m-1] = "n" /\ tok[m] = "g" THEN SubSeq(tok, 1, m - 2) \o <<"n_dot">> \o s
        ELSE IF m >= 1 /\ tok[m] = "n" THEN SubSeq(tok, 1, m - 1) \o <<"n_dot">> \o s
        ELSE tok

\* the pieces of the romanization lead, the k-th token rewritten when the k-th syllable
\* holds the letter NGA
RECURSIVE AlignedLead(_, _, _)
AlignedLead(parts, k, syls) ==
    IF parts = <<>> THEN <<>>
    ELSE IF IsSpaceStr(Head(parts)) THEN Head(parts) \o AlignedLead(Tail(parts), k, syls)
    ELSE (IF k <= Len(syls) /\ HasAny(syls[k], {"TIB_NGA"})
          THEN FinalNasalDotted(Head(parts)) ELSE Head(parts))
         \o AlignedLead(Tail(parts), k + 1, syls)

\* the line with the tokens of its romanization lead aligned to the syllables of its
\* headword, the Tibetan prefix and the rest of the tail as they are
AlignedToHeadword(line) ==
    LET prefix == split_tibetan_prefix_tail(line)[1]
        tail == split_tibetan_prefix_tail(line)[2]
        lead == Flat(translit_lead_tokens(tail))
    IN  IF prefix = <<>> \/ tail = <<>> \/ tibetan_syllables(prefix) = <<>> THEN line
        ELSE prefix \o AlignedLead(SplitWs(lead), 1, tibetan_syllables(prefix))
                    \o From(tail, Len(lead) + 1)

\* C23: alignment to the Tibetan headword: enforce_ng_from_tibetan_prefix rewrites the
\* final n or ng (a final s may follow) of the k-th token of the romanization lead to the
\* dotted n if and only if the k-th Tibetan syllable of the headword holds the letter NGA;
\* the tokens beyond the number of syllables, the Tibetan prefix and the rest of the tail
\* are left unchanged.  Checked on the line that post_cleanup_contextual hands to the
\* function, up to the whitespace that the final normalize_text collapses.
C23_NgAlignedToHeadword ==
    \A i \in 1..Len(merged_lines) :
        (/\ HasAny(raw_final_lines[i], LATIN_CHARS)
         /\ split_tibetan_prefix_tail(raw_final_lines[i])[1] # <<>>) =>
            merged_lines[i]
                = normalize_text(AlignedToHeadword(BeforeEnforceNg(raw_final_lines, i, raw_final_lines[i])))

\* C24: german_prose is assigned to a line exactly when the line has Latin letters and
\* none of the more specific zones bibliography, romanization and sanskrit applies to it;
\* so no line is labelled both german_prose and bibliography, and every line with a Latin
\* letter carries one of the four labels.
C24_GermanProseOnlyWithoutSpecificZone ==
    \A i \in 1..Len(zones) :
        "german_prose" \in zones[i]
            <=> /\ HasAny(normalize_text(raw_final_lines[i]), LATIN_CHARS)
                /\ zones[i] \cap {"bibliography", "romanization", "sanskrit"} = {}

\* the lines of the context window of line i of the page
WindowOf(page, i) == Max({1, i - Window})..Min({Len(page), i + Window})

\* the number of lines of the window of line i that are labelled german_prose
GermanLines(page, i) ==
    Cardinality({j \in WindowOf(page, i) : "german_prose" \in line_zones(normalize_text(page[j]))})

\* C25: the block flag german_dominant is true exactly when the german_prose lines of the
\* context window are at least half the lines of the window; for a window of one line
\* that is not german_prose the flag is false.
C25_GermanDominantIsHalfTheWindow ==
    \A i \in 1..Len(merged_lines) :
        classify_block_context(raw_final_lines, i).german_dominant
            <=> 2 * GermanLines(raw_final_lines, i) >= Cardinality(WindowOf(raw_final_lines, i))

(***************************************************************************)
(* Claims about the approval step                                          *)
(***************************************************************************)

\* the run has failed closed: no output text file, no rewrite applied, and once it has
\* ended, it has ended with a failure and the conflict artifact
FailsClosed ==
    /\ pc \in {"load", "loaded", "failed"}
    /\ pc = "loaded" => conflicts # <<>>
    /\ pc = "failed" =>
          /\ error = "SystemExit: Conflicting approved rewrites found"
          /\ <<"rewrite_conflicts", 0>> \in written.files
          /\ written.conflicts # <<>>
    /\ written.outputs = <<>>
    /\ written.summary = <<>>
    /\ \A f \in written.files : f[1] = "rewrite_conflicts"

\* two rows of the table have the same from_token and two different to_tokens
ConflictingRows ==
    \E i, j \in 1..Len(approved.rows) :
        /\ approved.rows[i].from_token = approved.rows[j].from_token
        /\ approved.rows[i].to_token # approved.rows[j].to_token

\* the row is a rewrite for load_rewrites: its trimmed cells are not empty and differ
IsRewriteRow(row) ==
    /\ Strip(row.from_token) # <<>>
    /\ Strip(row.to_token) # <<>>
    /\ Strip(row.from_token) # Strip(row.to_token)

\* two rows that are rewrites have, trimmed, the same from_token and different to_tokens
ConflictingRewriteRows ==
    \E i, j \in 1..Len(approved.rows) :
        /\ IsRewriteRow(approved.rows[i]) /\ IsRewriteRow(approved.rows[j])
        /\ Strip(approved.rows[i].from_token) = Strip(approved.rows[j].from_token)
        /\ Strip(approved.rows[i].to_token) # Strip(approved.rows[j].to_token)

\* C3 as stated: whenever the approved table has two rows with the same from_token and
\* two different to_tokens, the approval run fails closed.
C3_AnyTwoRowsFailClosed == ConflictingRows => FailsClosed

\* C3 amended: whenever the approved table has two rows that load_rewrites takes as
\* rewrites (trimmed from_token and to_token not empty and different from each other)
\* with the same trimmed from_token and two different trimmed to_tokens, the approval
\* run fails closed.
C3_ConflictFailsClosed == ConflictingRewriteRows => FailsClosed

\* a run has ended on a conflict with its conflict artifact written
C3_FailedOnConflict ==
    /\ ConflictingRewriteRows
    /\ pc = "failed"
    /\ <<"rewrite_conflicts", 0>> \in written.files
    /\ inputs # <<>>

\* the positions of text where a match of LATIN_TOKEN_RE starts
TokenStarts(text) ==
    {i \in 1..Len(text) : text[i] \in LATIN_TOKEN_CHARS /\ (i = 1 \/ ~InLatinToken(text, i - 1))}

\* the token of text that starts at i
TokenAt(text, i) == SubSeq(text, i, LatinTokenEnd(text, i))

\* text from position i on with the tokens that start at the positions of changed replaced
\* by their to_token, and nothing else changed
RECURSIVE ReplaceAt(_, _, _, _)
ReplaceAt(text, i, changed, rw) ==
    IF i > Len(text) THEN <<>>
    ELSE IF i \notin TokenStarts(text) THEN <<text[i]>> \o ReplaceAt(text, i + 1, changed, rw)
    ELSE (IF i \in changed THEN Get(rw, TokenAt(text, i)) ELSE TokenAt(text, i))
         \o ReplaceAt(text, LatinTokenEnd(text, i) + 1, changed, rw)

\* the whole tokens of text that are equal to a from_token of the approved pairs
Approved(text, rw) == {i \in TokenStarts(text) : \E p \in rw : p[1] = TokenAt(text, i)}

\* C30: apply_text changes only whole Latin tokens that are equal, case included, to an
\* approved from_token, and each of them to its to_token, in one pass that does not
\* rewrite what it has written; every other character of the text (Tibetan script,
\* whitespace, page separators) stays as it is, the count of replacements of the summary
\* is the number of tokens changed, and with an empty approved table the output is the
\* input.
C30_OnlyApprovedTokensChange ==
    \A k \in 1..Len(written.outputs) :
        /\ \E changed \in SUBSET Approved(inputs[k], rewrites) :
              /\ written.outputs[k] = ReplaceAt(inputs[k], 1, changed, rewrites)
              /\ written.summary[k][2] = Cardinality(changed)
              /\ \A i \in changed : Get(rewrites, TokenAt(inputs[k], i)) # TokenAt(inputs[k], i)
        /\ rewrites = {} => written.outputs[k] = inputs[k]

\* with gan -> gaṅ and gaṅ -> gañ approved, the text 'gan po gaṅ' has become
\* 'gaṅ po gañ': two tokens replaced, the first not rewritten a second time
C30_ChainAppliedOnce ==
    /\ pc = "applied"
    /\ rewrites = {<<<<"g", "a", "n">>, <<"g", "a", "n_dot">>>>,
                   <<<<"g", "a", "n_dot">>, <<"g", "a", "n_tilde">>>>}
    /\ inputs = <<<<"g", "a", "n", " ", "p", "o", " ", "g", "a", "n_dot">>>>
    /\ written.outputs = <<<<"g", "a", "n_dot", " ", "p", "o", " ", "g", "a", "n_tilde">>>>
    /\ written.summary[1][2] = 2

(***************************************************************************)
(* Properties of the Candidate Selector                                    *)
(***************************************************************************)

\* the primary text of the line arbitrated last and what choose_best_b_text selected
\* from the reads of that line
LastPrimary == page_audit_meta[Len(page_audit_meta)].a_text

Selected == choose_best_b_text(LastPrimary, b_candidates)

\* a candidate is script-safe: it introduces no Devanagari, and it holds Tibetan script
\* when the primary does
ScriptSafe(a_text, bt) ==
    /\ ~(HasAny(bt, DEV_CHARS) /\ ~HasAny(a_text, DEV_CHARS))
    /\ HasAny(a_text, TIB_CHARS) => HasAny(bt, TIB_CHARS)

\* the letters and the suspect symbols of the romanization tail after the Tibetan span
TailLetters(bt) == Count(translit_tail_after_tibetan(normalize_text(bt)), TRANSLIT_LETTERS)

TailSuspects(bt) == Count(translit_tail_after_tibetan(normalize_text(bt)), ROMAN_TAIL_SUSPECT_CHARS)

RawSimilarity(a_text, bt) == Similarity(normalize_text(a_text), normalize_text(bt))

C16_EmptyOnlyWhenNoContent ==
    LastIsCandidate =>
        /\ Selected[2] = <<>> <=> \A k \in 1..Len(b_candidates) : b_candidates[k][2] = <<>>
        /\ Selected[2] # <<>> => \E k \in 1..Len(b_candidates) : Selected = b_candidates[k]

\* C26: through the selector, the guards of the Arbiter and the splice, the final text of
\* a line holds Devanagari only if the primary text did: a selected secondary that holds
\* Devanagari is rejected as unexpected_devanagari before the guard lost_tibetan_script is
\* reached, so that no splice is made with it and the line keeps its primary text.
C26_DevanagariOnlyFromPrimary ==
    \A k \in 1..Len(page_audit_meta) :
        /\ HasAny(raw_final_lines[k], DEV_CHARS) => HasAny(page_audit_meta[k].a_text, DEV_CHARS)
        /\ HasAny(page_audit_meta[k].b_text, DEV_CHARS) =>
              /\ page_audit_meta[k].reason = "unexpected_devanagari"
              /\ page_audit_meta[k].replaced = 0

\* a secondary with Devanagari and without Tibetan script was selected for a primary with
\* Tibetan script, and the line kept its primary text
C26_DevanagariRejectedOnHeadwordLine ==
    \E k \in 1..Len(page_audit_meta) :
        /\ HasAny(page_audit_meta[k].a_text, TIB_CHARS)
        /\ HasAny(page_audit_meta[k].b_text, DEV_CHARS)
        /\ ~HasAny(page_audit_meta[k].b_text, TIB_CHARS)
        /\ page_audit_meta[k].reason = "unexpected_devanagari"
        /\ raw_final_lines[k] = page_audit_meta[k].a_text

(***************************************************************************)
(* The Corpus Aggregator                                                   *)
(***************************************************************************)

\* the forms of the group of a row of the table of ng_dot_candidate_report.py
NgGroupOf(row) == SelectSeq(stats, LAMBDA st : st.key = row.canon_key)

\* the forms of the group of a row of a table of token_variant_report.py
TvGroupOf(row) == GroupForms(groups, row.category, row.canon_key)

\* the occurrences of the most frequent form of the group other than the form tok
RunnerUp(forms, tok) ==
    Max({0} \cup {forms[k].count : k \in {j \in 1..Len(forms) : forms[j].tok # tok}})

\* the occurrences of the form tok in the group
CountOf(forms, tok) ==
    Max({0} \cup {forms[k].count : k \in {j \in 1..Len(forms) : forms[j].tok = tok}})

\* the group of a row reaches the floor, has two forms, and its winner to_token has the
\* share and the lead over the runner-up that the fractions ask for
ClearGroup(row, forms, floor, min_winner_share, min_winner_gap) ==
    /\ GroupTotal(forms) >= floor
    /\ Len(forms) >= 2
    /\ 100 * CountOf(forms, row.to_token) >= min_winner_share * GroupTotal(forms)
    /\ 100 * (CountOf(forms, row.to_token) - RunnerUp(forms, row.to_token))
           >= min_winner_gap * GroupTotal(forms)

\* the two forms of a row have one canonical key and are within the bounded number of
\* edits of each other once case and confusable characters are folded
CloseForms(row) ==
    /\ canon_key(row.from_token) = canon_key(row.to_token)
    /\ Diffs(Lower(simplify(row.from_token)), Lower(simplify(row.to_token))) <= MaxDiffs

\* the rows of conservative_rewrite_candidates.tsv come from clear groups and join close
\* forms
TvCandidatesFromClearGroups ==
    tv_reports # <<>> =>
        \A row \in tv_reports[1] :
            /\ ClearGroup(row, TvGroupOf(row), tv_args.min_group_total,
                          tv_args.min_winner_share, tv_args.min_winner_gap)
            /\ CloseForms(row)

\* the table of ng_dot_candidate_report.py has a row, and so has the conservative table
\* of token_variant_report.py
BothTablesHaveRows ==
    /\ ng_report # <<>> /\ ng_report[1] # {}
    /\ tv_reports # <<>> /\ tv_reports[1] # {}

\* C17: the Corpus Aggregator emits a rewrite candidate (from_token, to_token) only when
\* the total occurrences of its variant group reach the configured floor, the group has at
\* least two distinct surface forms, the share of the winning form and its lead over the
\* runner-up reach the configured fractions, and the two forms have the same canonical key
\* within a small bounded number of edits; this for the rows of both tables of candidates,
\* the n / n-tilde / dotted-n table and the conservative table.
C17_CandidateOnlyFromClearGroup ==
    /\ TvCandidatesFromClearGroups
    /\ ng_report # <<>> =>
          \A row \in ng_report[1] :
              /\ ClearGroup(row, NgGroupOf(row), ng_args.min_group_total,
                            DefaultMinWinnerShare, DefaultMinWinnerGap)
              /\ CloseForms(row)

\* the rows of a table in an order of the file
RECURSIVE RowsInOrder(_)
RowsInOrder(rows) ==
    IF rows = {} THEN <<>>
    ELSE LET row == CHOOSE r \in rows : TRUE IN <<row>> \o RowsInOrder(rows \ {row})

\* no token of the table is rewritten to two different tokens, and load_rewrites of the
\* approval step finds no conflict in the table
ConflictFree(rows) ==
    /\ \A r1, r2 \in rows : r1.from_token = r2.from_token => r1.to_token = r2.to_token
    /\ load_rewrites(RowsInOrder(rows)).conflicts = <<>>

\* the table of ng_dot_candidate_report.py is free of conflicts
NgTableConflictFree == ng_report # <<>> => ConflictFree(ng_report[1])

\* C29: every table of rewrite candidates of the Corpus Aggregator, the table of
\* ng_dot_candidate_report.py and the conservative table of token_variant_report.py, is
\* free of conflicts: no from_token is in two rows with two different to_tokens, so that
\* load_rewrites of the approval step finds no conflict in it.
C29_RewriteTablesConflictFree ==
    /\ NgTableConflictFree
    /\ tv_reports # <<>> => ConflictFree(tv_reports[1])

(***************************************************************************)
(* The merged document                                                     *)
(***************************************************************************)

\* the page whose text went to merged_pages last
PageIsDone == pc \in {"page", "done", "written"}

\* the pages are in ascending order of their numbers, and splitting the merged text at the
\* form feeds gives the texts of the pages, one for each page
OneChunkPerPage ==
    /\ \A i, j \in 1..Len(pages) : i < j => pages[i] < pages[j]
    /\ PageIsDone =>
          /\ Len(merged_pages) = page_no
          /\ \A i \in 1..Len(merged_lines) : ~HasAny(merged_lines[i], {"FF", "NL"})
    /\ (pc = "written" /\ args.page_separator = "formfeed") =>
          /\ SplitOn(merged_out, "FF") = merged_pages
          /\ Len(SplitOn(merged_out, "FF")) = Len(pages)

\* the text of a page with at least one line splits at the newlines into its output lines,
\* one for each line of the page and in the order of the lines
OneLinePerOcrLineOfNonBlankPage ==
    (PageIsDone /\ lines # <<>>) =>
        /\ SplitOn(merged_pages[Len(merged_pages)], "NL") = merged_lines
        /\ Len(merged_lines) = Len(lines)

\* C28: with the form feed as separator the merged document holds the pages in ascending
\* order of their numbers with one separator between two pages: no output line holds a
\* form feed or a newline, splitting the merged text at the form feeds gives one chunk for
\* each page, and splitting a chunk at the newlines gives one output line for each OCR
\* line of its page, in the order of the lines.
C28_OneChunkPerPageOneLinePerOcrLine ==
    /\ OneChunkPerPage
    /\ PageIsDone =>
          /\ SplitOn(merged_pages[Len(merged_pages)], "NL") = merged_lines
          /\ Len(SplitOn(merged_pages[Len(merged_pages)], "NL")) = Len(lines)

\* C28 amended: as above for every page with at least one OCR line; the chunk of a page
\* without OCR lines is empty, as is the chunk of a page whose only line is empty.
C28_OneChunkPerPageOneLinePerOcrLineOfNonBlankPage ==
    /\ OneChunkPerPage
    /\ OneLinePerOcrLineOfNonBlankPage
    /\ (PageIsDone /\ lines = <<>>) => merged_pages[Len(merged_pages)] = <<>>

\* a document of two pages is written with the form feed between them, and the first line
\* of the last page was replaced by a secondary text with a newline in it
C28_TwoPagesWrittenWithBrokenSecondary ==
    /\ pc = "written"
    /\ args.page_separator = "formfeed"
    /\ Len(pages) = 2
    /\ Count(merged_out, {"FF"}) = 1
    /\ Len(lines) = 2
    /\ page_audit_meta[1].replaced = 1
    /\ HasAny(raw_final_lines[1], {"NL"})
    /\ merged_pages[1] # <<>>
=============================================================================
